---- MODULE Spec2Model ----
(***************************************************************************)
(* Recipe-catalog backend (ctabo91/dreamhost-backend): the relational      *)
(* store, the Meal / Drink / User repositories, the partial-update builder *)
(* and the HTTP routes over them.                                          *)
(*                                                                         *)
(* db    the relational store: one set of rows per table plus the SERIAL   *)
(*       sequences that generate ids                                       *)
(* resp  the last call made (operation, arguments) and its outcome         *)
(* nops  how many calls have been made since the store was seeded          *)
(* calls the calls in flight when callers run concurrently: for each       *)
(*       caller the operation, its arguments, the statement it sends next  *)
(*       and the error it threw; empty when calls are made one at a time   *)
(*                                                                         *)
(* All column values are strings; an ingredients array is one string that  *)
(* stands for the whole array, a bcrypt hash is "$2b$" followed by the     *)
(* plaintext it was made from.                                             *)
(***************************************************************************)
EXTENDS Integers, Sequences, FiniteSets, TLC

VARIABLES db, resp, nops, calls

vars == <<db, resp, nops, calls>>

(***************************************************************************)
(* Bounds                                                                  *)
(***************************************************************************)
\* longest update mapping handed to the builder on its own
MaxLen == 2

\* rows the fixture seeds into meals, drinks and the personal tables
SeedRows == 2

\* calls made after the fixture has seeded the store
MaxOps == 2

(***************************************************************************)
(* Errors (expressError) and results of a call                             *)
(***************************************************************************)
NoError == [kind |-> "none", status |-> 200, message |-> ""]

BadRequestError(msg) == [kind |-> "BadRequest", status |-> 400, message |-> msg]

UnauthorizedError(msg) == [kind |-> "Unauthorized", status |-> 401, message |-> msg]

NotFoundError(msg) == [kind |-> "NotFound", status |-> 404, message |-> msg]

\* a repository call that returned: the store it leaves, the rows it
\* returns, and the number of statements (db.query) it sent
Return(d, rows, n) == [db |-> d, err |-> NoError, body |-> rows, nq |-> n]

\* a repository call that threw e after sending n statements
Throw(d, e, n) == [db |-> d, err |-> e, body |-> <<>>, nq |-> n]

(***************************************************************************)
(* Partial-update builder (helpers/sql)                                    *)
(*                                                                         *)
(* An update mapping is a sequence of <<key, value>> pairs with distinct   *)
(* keys: the object's own keys in iteration order.  A rename mapping is a  *)
(* function from some keys to column names.                                *)
(***************************************************************************)
Keys(data) == [i \in 1..Len(data) |-> data[i][1]]

Values(data) == [i \in 1..Len(data) |-> data[i][2]]

HasKey(data, k) == \E i \in 1..Len(data) : data[i][1] = k

NoRename == [k \in {} |-> ""]

\* the column a key is written to
ColumnOf(key, jsToSql) == IF key \in DOMAIN jsToSql THEN jsToSql[key] ELSE key

\* one "<col> = $<ph>" fragment of the SET clause
Fragment(col, ph) == [col |-> col, ph |-> ph]

\* sqlForPartialUpdate with the placeholders numbered from 0
sqlForPartialUpdateZeroBased(data, jsToSql) ==
    IF Len(data) = 0
    THEN [err |-> BadRequestError("No data"), setCols |-> <<>>, values |-> <<>>]
    ELSE [err |-> NoError,
          setCols |-> [i \in 1..Len(data) |->
                          Fragment(ColumnOf(Keys(data)[i], jsToSql), i - 1)],
          values |-> Values(data)]

sqlForPartialUpdate(data, jsToSql) ==
    IF Len(data) = 0
    THEN [err |-> BadRequestError("No data"), setCols |-> <<>>, values |-> <<>>]
    ELSE [err |-> NoError,
          setCols |-> [i \in 1..Len(data) |->
                          Fragment(ColumnOf(Keys(data)[i], jsToSql), i)],
          values |-> Values(data)]

(***************************************************************************)
(* The relational store: tables are sets of rows, a row is a function from *)
(* column names to values.                                                 *)
(***************************************************************************)
MealCols == {"name", "category", "area", "instructions", "thumbnail", "ingredients"}

DrinkCols == {"name", "category", "type", "glass", "instructions", "thumbnail",
              "ingredients"}

\* SELECT / RETURNING a list of columns of one row
Project(row, cols) == [c \in cols |-> row[c]]

\* SELECT / RETURNING username, first_name AS "firstName",
\* last_name AS "lastName", email
UserView(row) == [username |-> row.username, firstName |-> row.first_name,
                  lastName |-> row.last_name, email |-> row.email]

\* result.rows[0] of a statement that matched the rows in set s
FirstRow(s) == CHOOSE r \in s : TRUE

\* INSERT INTO t (...) VALUES (...): the id is drawn from the table's
\* SERIAL sequence
InsertSerial(d, t, vals) ==
    LET row == [c \in DOMAIN vals \cup {"id"} |->
                   IF c = "id" THEN d.seq[t] ELSE vals[c]]
    IN  [db |-> [d EXCEPT ![t] = @ \cup {row}, !.seq[t] = @ + 1], row |-> row]

\* the row r after "SET <setCols>" with the statement's parameters: each
\* fragment writes the parameter its placeholder names to its column
ApplySet(r, setCols, params) ==
    [c \in DOMAIN r |->
        IF \E i \in 1..Len(setCols) : setCols[i].col = c
        THEN params[setCols[CHOOSE i \in 1..Len(setCols) : setCols[i].col = c].ph]
        ELSE r[c]]

\* the UPDATE without its WHERE clause
UpdateWhereEveryRow(d, t, setCols, params, whereCol, wherePh) ==
    LET hit == {r \in d[t] : r[whereCol] = params[wherePh]}
        new == {ApplySet(r, setCols, params) : r \in hit}
    IN  [db |-> [d EXCEPT ![t] = {ApplySet(r, setCols, params) : r \in @}],
         rows |-> new]

\* UPDATE t SET <setCols> WHERE <whereCol> = $<wherePh> RETURNING ...
UpdateWhere(d, t, setCols, params, whereCol, wherePh) ==
    LET hit == {r \in d[t] : r[whereCol] = params[wherePh]}
        new == {ApplySet(r, setCols, params) : r \in hit}
    IN  [db |-> [d EXCEPT ![t] = (@ \ hit) \cup new], rows |-> new]

\* DELETE FROM meals when favorite_meals does not cascade
DeleteFromMealsNoCascade(d, id) ==
    [d EXCEPT !.meals = {r \in @ : r.id # id}]

\* DELETE FROM meals WHERE id = $1; favorite_meals rows go with the meal
\* (REFERENCES meals ON DELETE CASCADE)
DeleteFromMeals(d, id) ==
    [d EXCEPT !.meals = {r \in @ : r.id # id},
              !.favorite_meals = {f \in @ : f.meal_id # id}]

\* DELETE FROM drinks WHERE id = $1; favorite_drinks rows go with the drink
DeleteFromDrinks(d, id) ==
    [d EXCEPT !.drinks = {r \in @ : r.id # id},
              !.favorite_drinks = {f \in @ : f.drink_id # id}]

\* what deleting a user does to the personal recipes the user owns; the
\* personal tables' DDL decides it
PersonalFkPolicies == {"cascade", "orphan"}

\* DELETE FROM users WHERE username = $1; favorite rows go with the user
\* (REFERENCES users ON DELETE CASCADE)
DeleteFromUsers(d, username, policy) ==
    LET keep(s) == IF policy = "cascade" THEN {r \in s : r.username # username}
                   ELSE s
    IN  [d EXCEPT !.users = {u \in @ : u.username # username},
                  !.favorite_meals = {f \in @ : f.username # username},
                  !.favorite_drinks = {f \in @ : f.username # username},
                  !.personal_meals = keep(@),
                  !.personal_drinks = keep(@)]

\* bcrypt.hash(password, BCRYPT_WORK_FACTOR)
Hash(password) == "$2b$" \o password

\* bcrypt.compare(password, stored)
Compare(password, stored) == stored = Hash(password)

(***************************************************************************)
(* Text: how PostgreSQL sees the strings in the columns it sorts and       *)
(* searches (name, category, area, type, username).                        *)
(***************************************************************************)
\* the characters of each such string
Spell ==
    "M1" :> <<"M", "1">> @@
    "D1" :> <<"D", "1">> @@
    "Cat1" :> <<"C", "a", "t", "1">> @@
    "A1" :> <<"A", "1">> @@
    "T1" :> <<"T", "1">> @@
    "P-M1" :> <<"P", "-", "M", "1">> @@
    "P-D1" :> <<"P", "-", "D", "1">> @@
    "P-Cat1" :> <<"P", "-", "C", "a", "t", "1">> @@
    "P-A1" :> <<"P", "-", "A", "1">> @@
    "P-T1" :> <<"P", "-", "T", "1">> @@
    "M2" :> <<"M", "2">> @@
    "D2" :> <<"D", "2">> @@
    "Cat2" :> <<"C", "a", "t", "2">> @@
    "A2" :> <<"A", "2">> @@
    "T2" :> <<"T", "2">> @@
    "P-M2" :> <<"P", "-", "M", "2">> @@
    "P-D2" :> <<"P", "-", "D", "2">> @@
    "P-Cat2" :> <<"P", "-", "C", "a", "t", "2">> @@
    "P-A2" :> <<"P", "-", "A", "2">> @@
    "P-T2" :> <<"P", "-", "T", "2">> @@
    "M3" :> <<"M", "3">> @@
    "D3" :> <<"D", "3">> @@
    "Cat3" :> <<"C", "a", "t", "3">> @@
    "A3" :> <<"A", "3">> @@
    "T3" :> <<"T", "3">> @@
    "P-M3" :> <<"P", "-", "M", "3">> @@
    "P-D3" :> <<"P", "-", "D", "3">> @@
    "P-Cat3" :> <<"P", "-", "C", "a", "t", "3">> @@
    "P-A3" :> <<"P", "-", "A", "3">> @@
    "P-T3" :> <<"P", "-", "T", "3">> @@
    "New" :> <<"N", "e", "w">> @@
    "New Cat" :> <<"N", "e", "w", " ", "C", "a", "t">> @@
    "New Area" :> <<"N", "e", "w", " ", "A", "r", "e", "a">> @@
    "New Type" :> <<"N", "e", "w", " ", "T", "y", "p", "e">> @@
    "m" :> <<"m">> @@
    "cat2" :> <<"c", "a", "t", "2">> @@
    "a_" :> <<"a", "_">> @@
    "zz" :> <<"z", "z">> @@
    "u1" :> <<"u", "1">> @@
    "u2" :> <<"u", "2">> @@
    "u3" :> <<"u", "3">> @@
    "new" :> <<"n", "e", "w">> @@
    "nope" :> <<"n", "o", "p", "e">> @@
    "d" :> <<"d">> @@
    "t_" :> <<"t", "_">>

\* code points of the characters in use
Code ==
    " " :> 32 @@ "-" :> 45 @@ "1" :> 49 @@ "2" :> 50 @@
    "3" :> 51 @@ "A" :> 65 @@ "C" :> 67 @@ "D" :> 68 @@
    "M" :> 77 @@ "N" :> 78 @@ "P" :> 80 @@ "T" :> 84 @@
    "_" :> 95 @@ "a" :> 97 @@ "c" :> 99 @@ "d" :> 100 @@
    "e" :> 101 @@
    "m" :> 109 @@ "n" :> 110 @@ "o" :> 111 @@ "p" :> 112 @@
    "r" :> 114 @@ "t" :> 116 @@ "u" :> 117 @@ "w" :> 119 @@
    "y" :> 121 @@ "z" :> 122

\* lower(c)
LowerChar ==
    "A" :> "a" @@ "C" :> "c" @@ "D" :> "d" @@ "M" :> "m" @@ "N" :> "n" @@ "P" :> "p" @@ "T" :> "t"

Lower(cs) == [i \in 1..Len(cs) |->
                 IF cs[i] \in DOMAIN LowerChar THEN LowerChar[cs[i]] ELSE cs[i]]

\* a < b in code-point order
RECURSIVE CharsLess(_, _)
CharsLess(a, b) ==
    IF b = <<>> THEN FALSE
    ELSE IF a = <<>> THEN TRUE
    ELSE IF Code[Head(a)] # Code[Head(b)] THEN Code[Head(a)] < Code[Head(b)]
    ELSE CharsLess(Tail(a), Tail(b))

TextLess(x, y) == CharsLess(Spell[x], Spell[y])

\* s LIKE p: % matches any run of characters, _ any one character
RECURSIVE LikeMatch(_, _)
LikeMatch(p, cs) ==
    IF p = <<>> THEN cs = <<>>
    ELSE IF Head(p) = "%"
         THEN \E k \in 0..Len(cs) : LikeMatch(Tail(p), SubSeq(cs, k + 1, Len(cs)))
    ELSE IF cs = <<>> THEN FALSE
    ELSE IF Head(p) = "_" THEN LikeMatch(Tail(p), Tail(cs))
    ELSE Head(p) = Head(cs) /\ LikeMatch(Tail(p), Tail(cs))

\* value ILIKE '%' || filter || '%'
ILike(value, filter) ==
    LikeMatch(Lower(<<"%">> \o Spell[filter] \o <<"%">>), Lower(Spell[value]))

\* the orders in which "ORDER BY col" may return the rows of set S: rows with
\* equal keys come in any order
RECURSIVE OrderBy(_, _)
OrderBy(S, col) ==
    IF S = {} THEN {<<>>}
    ELSE LET first == {m \in S : \A r \in S : ~TextLess(r[col], m[col])}
         IN  UNION {{<<m>> \o rest : rest \in OrderBy(S \ {m}, col)} : m \in first}

(***************************************************************************)
(* Meal repository (models/meal.js)                                        *)
(***************************************************************************)
\* a search filter that is present and not the empty string
Truthy(searchFilters, k) == k \in DOMAIN searchFilters /\ searchFilters[k] # ""

RECURSIVE InsertAll(_, _, _)
InsertAll(d, t, dataArr) ==
    IF dataArr = <<>> THEN d
    ELSE InsertAll(InsertSerial(d, t, Head(dataArr)).db, t, Tail(dataArr))

\* one INSERT per element, no duplicate check
MealDumpData(d, dataArr) ==
    Return(InsertAll(d, "meals", dataArr), <<>>, Len(dataArr))

MealCreateNoDuplicateCheck(d, data) ==
    LET result == InsertSerial(d, "meals", Project(data, MealCols))
    IN  Return(result.db, <<result.row>>, 2)

\* Meal.create that binds area to $2 and category to $3
MealCreateSwapsColumns(d, data) ==
    LET duplicateCheck == {r \in d.meals : r.name = data.name}
        swapped == [data EXCEPT !.category = data.area, !.area = data.category]
    IN  IF duplicateCheck # {}
        THEN Throw(d, BadRequestError("Duplicate meal: " \o data.name), 1)
        ELSE LET result == InsertSerial(d, "meals", Project(swapped, MealCols))
             IN  Return(result.db, <<result.row>>, 2)

MealCreate(d, data) ==
    LET duplicateCheck == {r \in d.meals : r.name = data.name}
    IN  IF duplicateCheck # {}
        THEN Throw(d, BadRequestError("Duplicate meal: " \o data.name), 1)
        ELSE LET result == InsertSerial(d, "meals", Project(data, MealCols))
             IN  Return(result.db, <<result.row>>, 2)

\* the rows the WHERE clause of findAll keeps
MealMatches(d, searchFilters) ==
    {r \in d.meals :
        \A k \in {"name", "category", "area"} :
            Truthy(searchFilters, k) => ILike(r[k], searchFilters[k])}

\* rows is the order the store returns the matching rows in
MealFindAll(d, searchFilters, rows) == Return(d, rows, 1)

\* SELECT category, COUNT(*) ... GROUP BY category
CategoryCounts(S) ==
    {[category |-> c, count |-> Cardinality({r \in S : r.category = c})] :
        c \in {r.category : r \in S}}

MealGetCategories(d) ==
    Return(d, FirstRow(OrderBy(CategoryCounts(d.meals), "category")), 1)

MealGet(d, id) ==
    LET mealRes == {r \in d.meals : r.id = id}
    IN  IF mealRes = {}
        THEN Throw(d, NotFoundError("No meal: " \o ToString(id)), 1)
        ELSE Return(d, <<FirstRow(mealRes)>>, 1)

\* Meal.update that sends the UPDATE whatever the builder answered
MealUpdateIgnoresBuilderError(d, id, data) ==
    LET built == sqlForPartialUpdate(data, NoRename)
        idVarIdx == Len(built.values) + 1
        result == UpdateWhere(d, "meals", built.setCols,
                              Append(built.values, id), "id", idVarIdx)
    IN  IF result.rows = {}
        THEN Throw(result.db, NotFoundError("No meal: " \o ToString(id)), 1)
        ELSE Return(result.db, <<FirstRow(result.rows)>>, 1)

MealUpdateReturnsMissingRow(d, id, data) ==
    LET built == sqlForPartialUpdate(data, NoRename)
        idVarIdx == Len(built.values) + 1
        result == UpdateWhere(d, "meals", built.setCols,
                              Append(built.values, id), "id", idVarIdx)
    IN  IF built.err # NoError THEN Throw(d, built.err, 0)
        ELSE IF result.rows = {} THEN Return(result.db, <<>>, 1)
        ELSE Return(result.db, <<FirstRow(result.rows)>>, 1)

MealUpdate(d, id, data) ==
    LET built == sqlForPartialUpdate(data, NoRename)
        idVarIdx == Len(built.values) + 1
        result == UpdateWhere(d, "meals", built.setCols,
                              Append(built.values, id), "id", idVarIdx)
    IN  IF built.err # NoError THEN Throw(d, built.err, 0)
        ELSE IF result.rows = {}
        THEN Throw(result.db, NotFoundError("No meal: " \o ToString(id)), 1)
        ELSE Return(result.db, <<FirstRow(result.rows)>>, 1)

MealRemoveKeepsRow(d, id) ==
    LET result == {r \in d.meals : r.id = id}
    IN  IF result = {}
        THEN Throw(d, NotFoundError("No meal: " \o ToString(id)), 1)
        ELSE Return(d, <<>>, 1)

MealRemoveIgnoresMissingRow(d, id) ==
    Return(DeleteFromMeals(d, id), <<>>, 1)

MealRemove(d, id) ==
    LET result == {r \in d.meals : r.id = id}
    IN  IF result = {}
        THEN Throw(d, NotFoundError("No meal: " \o ToString(id)), 1)
        ELSE Return(DeleteFromMeals(d, id), <<>>, 1)

(***************************************************************************)
(* Drink repository (models/drink.js)                                       *)
(***************************************************************************)
\* one INSERT per element, no duplicate check
DrinkDumpData(d, dataArr) ==
    Return(InsertAll(d, "drinks", dataArr), <<>>, Len(dataArr))

DrinkCreate(d, data) ==
    LET duplicateCheck == {r \in d.drinks : r.name = data.name}
    IN  IF duplicateCheck # {}
        THEN Throw(d, BadRequestError("Duplicate drink: " \o data.name), 1)
        ELSE LET result == InsertSerial(d, "drinks", Project(data, DrinkCols))
             IN  Return(result.db, <<result.row>>, 2)

\* the rows the WHERE clause of findAll keeps
DrinkMatches(d, searchFilters) ==
    {r \in d.drinks :
        \A k \in {"name", "category", "type"} :
            Truthy(searchFilters, k) => ILike(r[k], searchFilters[k])}

\* rows is the order the store returns the matching rows in
DrinkFindAll(d, searchFilters, rows) == Return(d, rows, 1)

DrinkGetCategories(d) ==
    Return(d, FirstRow(OrderBy(CategoryCounts(d.drinks), "category")), 1)

DrinkGet(d, id) ==
    LET drinkRes == {r \in d.drinks : r.id = id}
    IN  IF drinkRes = {}
        THEN Throw(d, NotFoundError("No drink: " \o ToString(id)), 1)
        ELSE Return(d, <<FirstRow(drinkRes)>>, 1)

DrinkUpdate(d, id, data) ==
    LET built == sqlForPartialUpdate(data, NoRename)
        idVarIdx == Len(built.values) + 1
        result == UpdateWhere(d, "drinks", built.setCols,
                              Append(built.values, id), "id", idVarIdx)
    IN  IF built.err # NoError THEN Throw(d, built.err, 0)
        ELSE IF result.rows = {}
        THEN Throw(result.db, NotFoundError("No drink: " \o ToString(id)), 1)
        ELSE Return(result.db, <<FirstRow(result.rows)>>, 1)

\* Drink.remove without the throw when the DELETE returned no row
DrinkRemoveIgnoresMissingRow(d, id) == Return(DeleteFromDrinks(d, id), <<>>, 1)

DrinkRemove(d, id) ==
    LET result == {r \in d.drinks : r.id = id}
    IN  IF result = {}
        THEN Throw(d, NotFoundError("No drink: " \o ToString(id)), 1)
        ELSE Return(DeleteFromDrinks(d, id), <<>>, 1)

(***************************************************************************)
(* User repository (models/user.js)                                        *)
(***************************************************************************)
\* an error that is not an ExpressError and carries no status (0): the store
\* rejected the statement
InternalError(msg) == [kind |-> "Internal", status |-> 0, message |-> msg]

\* the orders in which a query without ORDER BY may list the members of S
RECURSIVE AnyOrder(_)
AnyOrder(S) ==
    IF S = {} THEN {<<>>}
    ELSE UNION {{<<m>> \o rest : rest \in AnyOrder(S \ {m})} : m \in S}

\* authenticate that tells a missing user from a wrong password
UserAuthenticateNotFound(d, username, password) ==
    LET result == {u \in d.users : u.username = username}
    IN  IF result = {}
        THEN Throw(d, NotFoundError("No user: " \o username), 1)
        ELSE IF Compare(password, FirstRow(result).password)
        THEN Return(d, <<UserView(FirstRow(result))>>, 1)
        ELSE Throw(d, UnauthorizedError("Invalid username/password"), 1)

\* authenticate without "delete user.password"
UserAuthenticateKeepsPassword(d, username, password) ==
    LET result == {u \in d.users : u.username = username}
        user == FirstRow(result)
    IN  IF result # {} /\ Compare(password, user.password)
        THEN Return(d, <<[username |-> user.username, password |-> user.password,
                          firstName |-> user.first_name, lastName |-> user.last_name,
                          email |-> user.email]>>, 1)
        ELSE Throw(d, UnauthorizedError("Invalid username/password"), 1)

UserAuthenticate(d, username, password) ==
    LET result == {u \in d.users : u.username = username}
    IN  IF result # {} /\ Compare(password, FirstRow(result).password)
        THEN Return(d, <<UserView(FirstRow(result))>>, 1)
        ELSE Throw(d, UnauthorizedError("Invalid username/password"), 1)

UserRegister(d, data) ==
    LET duplicateCheck == {u \in d.users : u.username = data.username}
        user == [username |-> data.username,
                 password |-> Hash(data.password),
                 first_name |-> data.firstName,
                 last_name |-> data.lastName,
                 email |-> data.email]
    IN  IF duplicateCheck # {}
        THEN Throw(d, BadRequestError("Duplicate username: " \o data.username), 1)
        ELSE Return([d EXCEPT !.users = @ \cup {user}], <<UserView(user)>>, 2)

UserFindAll(d) ==
    Return(d, FirstRow(OrderBy({UserView(u) : u \in d.users}, "username")), 1)

\* favMeals and favDrinks are the orders the two favorite queries return
\* their rows in
UserGet(d, username, favMeals, favDrinks) ==
    LET userRes == {u \in d.users : u.username = username}
    IN  IF userRes = {}
        THEN Throw(d, NotFoundError("No user: " \o username), 1)
        ELSE Return(d, <<[username |-> username,
                          firstName |-> FirstRow(userRes).first_name,
                          lastName |-> FirstRow(userRes).last_name,
                          email |-> FirstRow(userRes).email,
                          favMeals |-> favMeals,
                          favDrinks |-> favDrinks]>>, 3)

\* the favorite_meals query without its WHERE clause
FavMealIdsOfEveryUser(d, username) ==
    {f.meal_id : f \in d.favorite_meals}

FavMealIds(d, username) ==
    {f.meal_id : f \in {g \in d.favorite_meals : g.username = username}}

FavDrinkIds(d, username) ==
    {f.drink_id : f \in {g \in d.favorite_drinks : g.username = username}}

\* if (data.password) data.password = await bcrypt.hash(data.password, ...)
HashPassword(data) ==
    [i \in 1..Len(data) |->
        IF data[i][1] = "password" /\ data[i][2] # ""
        THEN <<"password", Hash(data[i][2])>>
        ELSE data[i]]

\* the mapping of User.update without its entry for lastName
UserRenameFirstNameOnly == [firstName |-> "first_name"]

UserRename == [firstName |-> "first_name", lastName |-> "last_name"]

\* User.update with the username as the first parameter and the values
\* after it
UserUpdateIdentifierFirst(d, username, data) ==
    LET built == sqlForPartialUpdate(HashPassword(data), UserRename)
        usernameVarIdx == Len(built.values) + 1
        result == UpdateWhere(d, "users", built.setCols,
                              <<username>> \o built.values, "username",
                              usernameVarIdx)
    IN  IF built.err # NoError THEN Throw(d, built.err, 0)
        ELSE IF result.rows = {}
        THEN Throw(result.db, NotFoundError("No user: " \o username), 1)
        ELSE Return(result.db, <<UserView(FirstRow(result.rows))>>, 1)

UserUpdate(d, username, data) ==
    LET built == sqlForPartialUpdate(HashPassword(data), UserRename)
        usernameVarIdx == Len(built.values) + 1
        result == UpdateWhere(d, "users", built.setCols,
                              Append(built.values, username), "username",
                              usernameVarIdx)
    IN  IF built.err # NoError THEN Throw(d, built.err, 0)
        ELSE IF result.rows = {}
        THEN Throw(result.db, NotFoundError("No user: " \o username), 1)
        ELSE Return(result.db, <<UserView(FirstRow(result.rows))>>, 1)

\* policy: what the personal tables' DDL does with the user's recipes
UserRemove(d, username, policy) ==
    LET result == {u \in d.users : u.username = username}
    IN  IF result = {}
        THEN Throw(d, NotFoundError("No user: " \o username), 1)
        ELSE Return(DeleteFromUsers(d, username, policy), <<>>, 1)

\* type === "meals" ? personal_meals : personal_drinks
PersonalTable(type) == IF type = "meals" THEN "personal_meals" ELSE "personal_drinks"

\* the columns the personal-recipe statements select and return
PersonalCols(type) ==
    IF type = "meals" THEN MealCols \cup {"id"} ELSE DrinkCols \cup {"id"}

PersonalRows(d, username, type) ==
    {Project(r, PersonalCols(type)) :
        r \in {q \in d[PersonalTable(type)] : q.username = username}}

\* rows is the order the store returns the user's recipes in
UserGetPersonalRecipes(d, username, type, rows) == Return(d, rows, 1)

\* fk: whether the personal tables' username column references users
UserCreatePersonalRecipe(d, username, type, data, fk) ==
    LET vals == [c \in (PersonalCols(type) \ {"id"}) \cup {"username"} |->
                    IF c = "username" THEN username ELSE data[c]]
        result == InsertSerial(d, PersonalTable(type), vals)
    IN  IF fk /\ ~\E u \in d.users : u.username = username
        THEN Throw(d, InternalError("foreign key violation"), 1)
        ELSE Return(result.db, <<Project(result.row, PersonalCols(type))>>, 1)

UserGetPersonalRecipe(d, id, username, type) ==
    LET result == {r \in d[PersonalTable(type)] : r.id = id /\ r.username = username}
    IN  IF result = {}
        THEN Throw(d, NotFoundError("No personal " \o type \o ": " \o ToString(id)), 1)
        ELSE Return(d, <<Project(FirstRow(result), PersonalCols(type))>>, 1)

UserUpdatePersonalRecipe(d, id, type, data) ==
    LET built == sqlForPartialUpdate(data, NoRename)
        idVarIdx == Len(built.values) + 1
        result == UpdateWhere(d, PersonalTable(type), built.setCols,
                              Append(built.values, id), "id", idVarIdx)
    IN  IF built.err # NoError THEN Throw(d, built.err, 0)
        ELSE IF result.rows = {}
        THEN Throw(result.db,
                   NotFoundError("No personal " \o type \o ": " \o ToString(id)), 1)
        ELSE Return(result.db,
                    <<Project(FirstRow(result.rows), PersonalCols(type))>>, 1)

\* markFavMeal that looks for the user before the meal
UserMarkFavMealChecksUserFirst(d, username, mealId) ==
    IF ~\E u \in d.users : u.username = username
    THEN Throw(d, NotFoundError("No username: " \o username), 1)
    ELSE IF ~\E m \in d.meals : m.id = mealId
    THEN Throw(d, NotFoundError("No meal: " \o ToString(mealId)), 2)
    ELSE Return([d EXCEPT !.favorite_meals =
                    @ \cup {[username |-> username, meal_id |-> mealId]}],
                <<>>, 3)

\* markFavMeal whose INSERT has no ON CONFLICT clause
UserMarkFavMealNoOnConflict(d, username, mealId) ==
    IF ~\E m \in d.meals : m.id = mealId
    THEN Throw(d, NotFoundError("No meal: " \o ToString(mealId)), 1)
    ELSE IF ~\E u \in d.users : u.username = username
    THEN Throw(d, NotFoundError("No username: " \o username), 2)
    ELSE IF [username |-> username, meal_id |-> mealId] \in d.favorite_meals
    THEN Throw(d, InternalError("duplicate key value"), 3)
    ELSE Return([d EXCEPT !.favorite_meals =
                    @ \cup {[username |-> username, meal_id |-> mealId]}],
                <<>>, 3)

UserMarkFavMeal(d, username, mealId) ==
    IF ~\E m \in d.meals : m.id = mealId
    THEN Throw(d, NotFoundError("No meal: " \o ToString(mealId)), 1)
    ELSE IF ~\E u \in d.users : u.username = username
    THEN Throw(d, NotFoundError("No username: " \o username), 2)
    ELSE Return([d EXCEPT !.favorite_meals =
                    @ \cup {[username |-> username, meal_id |-> mealId]}],
                <<>>, 3)

\* unmarkFavMeal whose DELETE has no "meal_id = $1" condition
UserUnmarkFavMealOfAnyMeal(d, username, mealId) ==
    IF ~\E m \in d.meals : m.id = mealId
    THEN Throw(d, NotFoundError("No meal: " \o ToString(mealId)), 1)
    ELSE IF ~\E u \in d.users : u.username = username
    THEN Throw(d, NotFoundError("No username: " \o username), 2)
    ELSE Return([d EXCEPT !.favorite_meals = {f \in @ : f.username # username}],
                <<>>, 3)

UserUnmarkFavMeal(d, username, mealId) ==
    IF ~\E m \in d.meals : m.id = mealId
    THEN Throw(d, NotFoundError("No meal: " \o ToString(mealId)), 1)
    ELSE IF ~\E u \in d.users : u.username = username
    THEN Throw(d, NotFoundError("No username: " \o username), 2)
    ELSE Return([d EXCEPT !.favorite_meals =
                    @ \ {[username |-> username, meal_id |-> mealId]}],
                <<>>, 3)

UserMarkFavDrink(d, username, drinkId) ==
    IF ~\E m \in d.drinks : m.id = drinkId
    THEN Throw(d, NotFoundError("No drink: " \o ToString(drinkId)), 1)
    ELSE IF ~\E u \in d.users : u.username = username
    THEN Throw(d, NotFoundError("No username: " \o username), 2)
    ELSE Return([d EXCEPT !.favorite_drinks =
                    @ \cup {[username |-> username, drink_id |-> drinkId]}],
                <<>>, 3)

UserUnmarkFavDrink(d, username, drinkId) ==
    IF ~\E m \in d.drinks : m.id = drinkId
    THEN Throw(d, NotFoundError("No drink: " \o ToString(drinkId)), 1)
    ELSE IF ~\E u \in d.users : u.username = username
    THEN Throw(d, NotFoundError("No username: " \o username), 2)
    ELSE Return([d EXCEPT !.favorite_drinks =
                    @ \ {[username |-> username, drink_id |-> drinkId]}],
                <<>>, 3)

(***************************************************************************)
(* The seeded store (models/_testCommon.js, commonBeforeAll)               *)
(***************************************************************************)
MealFixture ==
    <<[name |-> "M1", category |-> "Cat1", area |-> "A1", 
       instructions |-> "Inst1", thumbnail |-> "http://M1.img",
       ingredients |-> "Ing1a,Ing1b,Ing1c"],
      [name |-> "M2", category |-> "Cat2", area |-> "A2", 
       instructions |-> "Inst2", thumbnail |-> "http://M2.img",
       ingredients |-> "Ing2a,Ing2b,Ing2c"],
      [name |-> "M3", category |-> "Cat3", area |-> "A3", 
       instructions |-> "Inst3", thumbnail |-> "http://M3.img",
       ingredients |-> "Ing3a,Ing3b,Ing3c"]>>

DrinkFixture ==
    <<[name |-> "D1", category |-> "Cat1", type |-> "T1", glass |-> "G1", 
       instructions |-> "Inst1", thumbnail |-> "http://D1.img",
       ingredients |-> "Ing1a,Ing1b,Ing1c"],
      [name |-> "D2", category |-> "Cat2", type |-> "T2", glass |-> "G2", 
       instructions |-> "Inst2", thumbnail |-> "http://D2.img",
       ingredients |-> "Ing2a,Ing2b,Ing2c"],
      [name |-> "D3", category |-> "Cat3", type |-> "T3", glass |-> "G3", 
       instructions |-> "Inst3", thumbnail |-> "http://D3.img",
       ingredients |-> "Ing3a,Ing3b,Ing3c"]>>

PersonalMealFixture ==
    <<[name |-> "P-M1", category |-> "P-Cat1", area |-> "P-A1", 
       instructions |-> "P-Inst1", thumbnail |-> "http://P-M1.img",
       ingredients |-> "P-Ing1a,P-Ing1b,P-Ing1c"],
      [name |-> "P-M2", category |-> "P-Cat2", area |-> "P-A2", 
       instructions |-> "P-Inst2", thumbnail |-> "http://P-M2.img",
       ingredients |-> "P-Ing2a,P-Ing2b,P-Ing2c"],
      [name |-> "P-M3", category |-> "P-Cat3", area |-> "P-A3", 
       instructions |-> "P-Inst3", thumbnail |-> "http://P-M3.img",
       ingredients |-> "P-Ing3a,P-Ing3b,P-Ing3c"]>>

PersonalDrinkFixture ==
    <<[name |-> "P-D1", category |-> "P-Cat1", type |-> "P-T1", glass |-> "P-G1", 
       instructions |-> "P-Inst1", thumbnail |-> "http://P-D1.img",
       ingredients |-> "P-Ing1a,P-Ing1b,P-Ing1c"],
      [name |-> "P-D2", category |-> "P-Cat2", type |-> "P-T2", glass |-> "P-G2", 
       instructions |-> "P-Inst2", thumbnail |-> "http://P-D2.img",
       ingredients |-> "P-Ing2a,P-Ing2b,P-Ing2c"],
      [name |-> "P-D3", category |-> "P-Cat3", type |-> "P-T3", glass |-> "P-G3", 
       instructions |-> "P-Inst3", thumbnail |-> "http://P-D3.img",
       ingredients |-> "P-Ing3a,P-Ing3b,P-Ing3c"]>>

UserFixture ==
    {[username |-> "u1", password |-> Hash("password1"), first_name |-> "U1F",
      last_name |-> "U1L", email |-> "u1@email.com"],
     [username |-> "u2", password |-> Hash("password2"), first_name |-> "U2F",
      last_name |-> "U2L", email |-> "u2@email.com"]}

\* the first SeedRows rows of a fixture list, each with the owner's username
\* when the table has one
Seeded(fixture, owner) ==
    [i \in 1..SeedRows |->
        [c \in DOMAIN fixture[i] \cup (IF owner = "" THEN {} ELSE {"username"}) |->
            IF c = "username" THEN owner ELSE fixture[i][c]]]

EmptyDb ==
    [meals |-> {}, drinks |-> {}, users |-> {},
     personal_meals |-> {}, personal_drinks |-> {},
     favorite_meals |-> {}, favorite_drinks |-> {},
     seq |-> [meals |-> 1, drinks |-> 1, personal_meals |-> 1, personal_drinks |-> 1]]

commonBeforeAll ==
    LET d1 == InsertAll(EmptyDb, "meals", Seeded(MealFixture, ""))
        d2 == InsertAll(d1, "drinks", Seeded(DrinkFixture, ""))
        d3 == [d2 EXCEPT !.users = UserFixture,
                         !.favorite_meals = {[username |-> "u1", meal_id |-> 1]},
                         !.favorite_drinks = {[username |-> "u1", drink_id |-> 1]}]
        d4 == InsertAll(d3, "personal_meals", Seeded(PersonalMealFixture, "u1"))
    IN  InsertAll(d4, "personal_drinks", Seeded(PersonalDrinkFixture, "u1"))

Init ==
    /\ db = commonBeforeAll
    /\ resp = [op |-> "commonBeforeAll", args |-> <<>>, err |-> NoError,
               body |-> <<>>, nq |-> 0]
    /\ nops = 0
    /\ calls = <<>>

(***************************************************************************)
(* Arguments the calls are made with                                       *)
(***************************************************************************)
\* 0 is never an id; SeedRows + 1 is the id of the first row created
Ids == 0..(SeedRows + 1)

Usernames == {"u1", "u2", "nope"}

Types == {"meals", "drinks"}

NewMeal ==
    [name |-> "New", category |-> "New Cat", area |-> "New Area",
     instructions |-> "New Inst", thumbnail |-> "http://New.img",
     ingredients |-> "New Ing 1,New Ing 2"]

NewDrink ==
    [name |-> "New", category |-> "New Cat", type |-> "New Type", glass |-> "New Glass",
     instructions |-> "New Inst", thumbnail |-> "http://New.img",
     ingredients |-> "New Ing 1,New Ing 2"]

MealInputs == {NewMeal, [NewMeal EXCEPT !.name = "M1"]}

DrinkInputs == {NewDrink, [NewDrink EXCEPT !.name = "D1"]}

MealDumps == {<<NewMeal>>, <<MealFixture[1]>>, <<NewMeal, NewMeal>>}

DrinkDumps == {<<NewDrink>>, <<DrinkFixture[1]>>, <<NewDrink, NewDrink>>}

MealUpdates ==
    {<<>>,
     <<<<"name", "New">>>>,
     <<<<"name", "M1">>>>,
     <<<<"category", "New Cat">>, <<"area", "New Area">>>>}

DrinkUpdates ==
    {<<>>,
     <<<<"name", "New">>>>,
     <<<<"name", "D1">>>>,
     <<<<"category", "New Cat">>, <<"type", "New Type">>>>}

PersonalUpdates ==
    {<<>>,
     <<<<"name", "New">>>>,
     <<<<"instructions", "New Inst">>, <<"category", "New Cat">>>>}

NewUser ==
    [username |-> "new", password |-> "password", firstName |-> "Test",
     lastName |-> "Tester", email |-> "test@test.com"]

RegisterInputs == {NewUser, [NewUser EXCEPT !.username = "u1"]}

UserUpdates ==
    {<<>>,
     <<<<"firstName", "NewF">>>>,
     <<<<"password", "new-password">>>>,
     <<<<"lastName", "NewL">>, <<"email", "new@email.com">>>>}

(***************************************************************************)
(* Calls on the repositories                                               *)
(***************************************************************************)
\* the call op(args) ran to its outcome r
Call(op, args, r) ==
    /\ nops < MaxOps
    /\ nops' = nops + 1
    /\ db' = r.db
    /\ resp' = [op |-> op, args |-> args, err |-> r.err, body |-> r.body,
                nq |-> r.nq]
    /\ UNCHANGED calls

CallMealDumpData ==
    \E dataArr \in MealDumps :
        Call("Meal.dumpData", [dataArr |-> dataArr], MealDumpData(db, dataArr))

CallMealCreate ==
    \E data \in MealInputs :
        Call("Meal.create", [data |-> data], MealCreate(db, data))

CallMealGet ==
    \E id \in Ids : Call("Meal.get", [id |-> id], MealGet(db, id))

CallMealUpdate ==
    \E id \in Ids, data \in MealUpdates :
        Call("Meal.update", [id |-> id, data |-> data], MealUpdate(db, id, data))

CallMealRemove ==
    \E id \in Ids : Call("Meal.remove", [id |-> id], MealRemove(db, id))

CallDrinkDumpData ==
    \E dataArr \in DrinkDumps :
        Call("Drink.dumpData", [dataArr |-> dataArr], DrinkDumpData(db, dataArr))

CallDrinkCreate ==
    \E data \in DrinkInputs :
        Call("Drink.create", [data |-> data], DrinkCreate(db, data))

CallDrinkGet ==
    \E id \in Ids : Call("Drink.get", [id |-> id], DrinkGet(db, id))

CallDrinkUpdate ==
    \E id \in Ids, data \in DrinkUpdates :
        Call("Drink.update", [id |-> id, data |-> data], DrinkUpdate(db, id, data))

CallDrinkRemove ==
    \E id \in Ids : Call("Drink.remove", [id |-> id], DrinkRemove(db, id))

CallUserRegister ==
    \E data \in RegisterInputs :
        Call("User.register", [data |-> data], UserRegister(db, data))

CallUserGet ==
    \E username \in Usernames :
        \E favMeals \in AnyOrder(FavMealIds(db, username)),
           favDrinks \in AnyOrder(FavDrinkIds(db, username)) :
            Call("User.get", [username |-> username],
                 UserGet(db, username, favMeals, favDrinks))

CallUserUpdate ==
    \E username \in Usernames, data \in UserUpdates :
        Call("User.update", [username |-> username, data |-> data],
             UserUpdate(db, username, data))

CallUserRemove ==
    \E username \in Usernames, policy \in PersonalFkPolicies :
        Call("User.remove", [username |-> username],
             UserRemove(db, username, policy))

CallUserGetPersonalRecipes ==
    \E username \in Usernames, type \in Types :
        \E rows \in OrderBy(PersonalRows(db, username, type), "name") :
            Call("User.getPersonalRecipes", [username |-> username, type |-> type],
                 UserGetPersonalRecipes(db, username, type, rows))

CallUserCreatePersonalRecipe ==
    \E username \in Usernames, type \in Types, fk \in BOOLEAN :
        LET data == IF type = "meals" THEN NewMeal ELSE NewDrink
        IN  Call("User.createPersonalRecipe",
                 [username |-> username, type |-> type, data |-> data],
                 UserCreatePersonalRecipe(db, username, type, data, fk))

CallUserGetPersonalRecipe ==
    \E id \in Ids, username \in Usernames, type \in Types :
        Call("User.getPersonalRecipe",
             [id |-> id, username |-> username, type |-> type],
             UserGetPersonalRecipe(db, id, username, type))

CallUserUpdatePersonalRecipe ==
    \E id \in Ids, type \in Types, data \in PersonalUpdates :
        Call("User.updatePersonalRecipe", [id |-> id, type |-> type, data |-> data],
             UserUpdatePersonalRecipe(db, id, type, data))

Next ==
    \/ CallMealDumpData
    \/ CallMealCreate
    \/ CallMealGet
    \/ CallMealUpdate
    \/ CallMealRemove
    \/ CallDrinkDumpData
    \/ CallDrinkCreate
    \/ CallDrinkGet
    \/ CallDrinkUpdate
    \/ CallDrinkRemove
    \/ CallUserRegister
    \/ CallUserGet
    \/ CallUserUpdate
    \/ CallUserRemove
    \/ CallUserGetPersonalRecipes
    \/ CallUserCreatePersonalRecipe
    \/ CallUserGetPersonalRecipe
    \/ CallUserUpdatePersonalRecipe

Spec == Init /\ [][Next]_vars

(***************************************************************************)
(* Calls of the favorite methods, with the removes that cascade to the     *)
(* join tables                                                             *)
(***************************************************************************)
CallUserMarkFavMeal ==
    \E username \in Usernames, mealId \in Ids :
        Call("User.markFavMeal", [username |-> username, id |-> mealId],
             UserMarkFavMeal(db, username, mealId))

CallUserUnmarkFavMeal ==
    \E username \in Usernames, mealId \in Ids :
        Call("User.unmarkFavMeal", [username |-> username, id |-> mealId],
             UserUnmarkFavMeal(db, username, mealId))

CallUserMarkFavDrink ==
    \E username \in Usernames, drinkId \in Ids :
        Call("User.markFavDrink", [username |-> username, id |-> drinkId],
             UserMarkFavDrink(db, username, drinkId))

CallUserUnmarkFavDrink ==
    \E username \in Usernames, drinkId \in Ids :
        Call("User.unmarkFavDrink", [username |-> username, id |-> drinkId],
             UserUnmarkFavDrink(db, username, drinkId))

NextFav ==
    \/ CallUserMarkFavMeal
    \/ CallUserUnmarkFavMeal
    \/ CallUserMarkFavDrink
    \/ CallUserUnmarkFavDrink
    \/ CallMealRemove
    \/ CallDrinkRemove
    \/ CallUserRemove
    \/ CallUserGet
    \/ CallUserRegister

SpecFav == Init /\ [][NextFav]_vars

(***************************************************************************)
(* Calls that set and test passwords                                       *)
(***************************************************************************)
Passwords == {"password1", "password2", "password", "new-password", ""}

AuthUsernames == {"u1", "new", "nope"}

PasswordUpdates ==
    {<<<<"password", "new-password">>>>,
     <<<<"password", "">>>>,
     <<<<"firstName", "NewF">>>>,
     <<<<"email", "new@email.com">>, <<"password", "password2">>>>}

CallUserAuthenticate ==
    \E username \in AuthUsernames, password \in Passwords :
        Call("User.authenticate", [username |-> username, password |-> password],
             UserAuthenticate(db, username, password))

CallUserFindAll == Call("User.findAll", <<>>, UserFindAll(db))

CallUserSetPassword ==
    \E username \in AuthUsernames, data \in PasswordUpdates :
        Call("User.update", [username |-> username, data |-> data],
             UserUpdate(db, username, data))

NextAuth ==
    \/ CallUserAuthenticate
    \/ CallUserRegister
    \/ CallUserFindAll
    \/ CallUserGet
    \/ CallUserSetPassword
    \/ CallUserRemove

SpecAuth == Init /\ [][NextAuth]_vars

(***************************************************************************)
(* Concurrent callers. Each db.query is one statement the store runs       *)
(* atomically; between two statements of one call the statements of the    *)
(* other caller may run.                                                   *)
(***************************************************************************)
Procs == {1, 2}

\* the join table a favorite method writes, its recipe column and the
\* table that column references
FavTable(op) ==
    IF op \in {"User.markFavMeal", "User.unmarkFavMeal"}
    THEN [t |-> "favorite_meals", col |-> "meal_id", ref |-> "meals", what |-> "meal"]
    ELSE [t |-> "favorite_drinks", col |-> "drink_id", ref |-> "drinks", what |-> "drink"]

FavRow(col, username, id) ==
    [c \in {"username", col} |-> IF c = "username" THEN username ELSE id]

\* the INSERT without its ON CONFLICT clause
InsertFavoriteNoOnConflict(d, f, username, id) ==
    IF \/ ~\E r \in d[f.ref] : r.id = id
       \/ ~\E u \in d.users : u.username = username
    THEN [db |-> d, err |-> InternalError("violates foreign key constraint")]
    ELSE IF FavRow(f.col, username, id) \in d[f.t]
    THEN [db |-> d, err |-> InternalError("duplicate key value")]
    ELSE [db |-> [d EXCEPT ![f.t] = @ \cup {FavRow(f.col, username, id)}],
          err |-> NoError]

\* INSERT INTO favorite_x (x_id, username) VALUES ($1, $2) ON CONFLICT DO
\* NOTHING, under the table's two foreign keys
InsertFavorite(d, f, username, id) ==
    IF \/ ~\E r \in d[f.ref] : r.id = id
       \/ ~\E u \in d.users : u.username = username
    THEN [db |-> d, err |-> InternalError("violates foreign key constraint")]
    ELSE [db |-> [d EXCEPT ![f.t] = @ \cup {FavRow(f.col, username, id)}],
          err |-> NoError]

\* DELETE FROM favorite_x WHERE x_id = $1 AND username = $2
DeleteFavorite(d, f, username, id) ==
    [db |-> [d EXCEPT ![f.t] = @ \ {FavRow(f.col, username, id)}], err |-> NoError]

ConcUsernames == {"u1", "nope"}

ConcIds == {0, 1, 2}

FavOps == {"User.markFavMeal", "User.unmarkFavMeal",
           "User.markFavDrink", "User.unmarkFavDrink"}

Idle == [op |-> "idle", args |-> <<>>, pc |-> "idle", err |-> NoError]

InitFavConc ==
    /\ db = commonBeforeAll
    /\ resp = [op |-> "commonBeforeAll", args |-> <<>>, err |-> NoError,
               body |-> <<>>, nq |-> 0]
    /\ nops = 0
    /\ calls = [p \in Procs |-> Idle]

\* caller p enters a favorite method
BeginFav(p) ==
    /\ calls[p].pc = "idle"
    /\ \E op \in FavOps, username \in ConcUsernames, id \in ConcIds :
           calls' = [calls EXCEPT ![p] = [op |-> op,
                                          args |-> [username |-> username, id |-> id],
                                          pc |-> "preCheck", err |-> NoError]]
    /\ nops' = nops + 1
    /\ UNCHANGED <<db, resp>>

\* caller p enters Meal.remove, Drink.remove or User.remove
BeginRemove(p) ==
    /\ calls[p].pc = "idle"
    /\ \/ \E op \in {"Meal.remove", "Drink.remove"}, id \in ConcIds :
              calls' = [calls EXCEPT ![p] = [op |-> op, args |-> [id |-> id],
                                             pc |-> "delete", err |-> NoError]]
       \/ \E username \in ConcUsernames :
              calls' = [calls EXCEPT ![p] = [op |-> "User.remove",
                                             args |-> [username |-> username],
                                             pc |-> "delete", err |-> NoError]]
    /\ nops' = nops + 1
    /\ UNCHANGED <<db, resp>>

\* SELECT id FROM meals / drinks WHERE id = $1, and the throw after it
StepPreCheck(p) ==
    /\ calls[p].pc = "preCheck"
    /\ LET f == FavTable(calls[p].op)
           id == calls[p].args.id
       IN  calls' = [calls EXCEPT ![p] =
               IF \E r \in db[f.ref] : r.id = id
               THEN [@ EXCEPT !.pc = "preCheck2"]
               ELSE [@ EXCEPT !.pc = "done",
                              !.err = NotFoundError("No " \o f.what \o ": "
                                                    \o ToString(id))]]
    /\ UNCHANGED <<db, resp, nops>>

\* SELECT username FROM users WHERE username = $1, and the throw after it
StepPreCheck2(p) ==
    /\ calls[p].pc = "preCheck2"
    /\ LET username == calls[p].args.username
       IN  calls' = [calls EXCEPT ![p] =
               IF \E u \in db.users : u.username = username
               THEN [@ EXCEPT !.pc = "write"]
               ELSE [@ EXCEPT !.pc = "done",
                              !.err = NotFoundError("No username: " \o username)]]
    /\ UNCHANGED <<db, resp, nops>>

\* the INSERT or DELETE on the join table
StepWrite(p) ==
    /\ calls[p].pc = "write"
    /\ LET f == FavTable(calls[p].op)
           r == IF calls[p].op \in {"User.markFavMeal", "User.markFavDrink"}
                THEN InsertFavorite(db, f, calls[p].args.username, calls[p].args.id)
                ELSE DeleteFavorite(db, f, calls[p].args.username, calls[p].args.id)
       IN  /\ db' = r.db
           /\ calls' = [calls EXCEPT ![p] = [@ EXCEPT !.pc = "done", !.err = r.err]]
    /\ UNCHANGED <<resp, nops>>

\* the single DELETE ... RETURNING of a remove, and the throw after it
StepRemove(p) ==
    /\ calls[p].pc = "delete"
    /\ \E policy \in PersonalFkPolicies :
           LET r == CASE calls[p].op = "Meal.remove" -> MealRemove(db, calls[p].args.id)
                      [] calls[p].op = "Drink.remove" -> DrinkRemove(db, calls[p].args.id)
                      [] calls[p].op = "User.remove" ->
                             UserRemove(db, calls[p].args.username, policy)
           IN  /\ db' = r.db
               /\ calls' = [calls EXCEPT ![p] = [@ EXCEPT !.pc = "done", !.err = r.err]]
    /\ UNCHANGED <<resp, nops>>

NextFavConc ==
    \E p \in Procs :
        \/ BeginFav(p)
        \/ BeginRemove(p)
        \/ StepPreCheck(p)
        \/ StepPreCheck2(p)
        \/ StepWrite(p)
        \/ StepRemove(p)

SpecFavConc == InitFavConc /\ [][NextFavConc]_vars

(***************************************************************************)
(* Concurrent Meal.create, Drink.create and User.register: every await     *)
(* db.query (and the await of bcrypt.hash) is a point where the other      *)
(* caller may run.                                                         *)
(***************************************************************************)
CreateOps == {"Meal.create", "Drink.create"}

\* the table a create method writes and the columns of its INSERT
CreateTable(op) ==
    IF op = "Meal.create"
    THEN [t |-> "meals", cols |-> MealCols, what |-> "meal"]
    ELSE [t |-> "drinks", cols |-> DrinkCols, what |-> "drink"]

\* the INSERT of create over a table that declares name UNIQUE
InsertRecipeUniqueName(d, f, data) ==
    IF \E r \in d[f.t] : r.name = data.name
    THEN [db |-> d, err |-> InternalError("duplicate key value")]
    ELSE [db |-> InsertSerial(d, f.t, Project(data, f.cols)).db, err |-> NoError]

\* INSERT INTO meals / drinks (...) VALUES (...) RETURNING ...: the tables
\* declare no constraint on name, id is SERIAL
InsertRecipe(d, f, data) ==
    [db |-> InsertSerial(d, f.t, Project(data, f.cols)).db, err |-> NoError]

\* the INSERT of register over a table without its primary key
InsertUserNoPrimaryKey(d, data) ==
    [db |-> [d EXCEPT !.users = @ \cup
                {[username |-> data.username, password |-> Hash(data.password),
                  first_name |-> data.firstName, last_name |-> data.lastName,
                  email |-> data.email]}],
     err |-> NoError]

\* INSERT INTO users (...) VALUES ($1, $2, $3, $4, $5) under
\* username VARCHAR(25) PRIMARY KEY
InsertUser(d, data) ==
    IF \E u \in d.users : u.username = data.username
    THEN [db |-> d, err |-> InternalError("duplicate key value")]
    ELSE [db |-> [d EXCEPT !.users = @ \cup
                     {[username |-> data.username, password |-> Hash(data.password),
                       first_name |-> data.firstName, last_name |-> data.lastName,
                       email |-> data.email]}],
          err |-> NoError]

ConcRegisterInputs == RegisterInputs \cup {[NewUser EXCEPT !.password = "other"]}

\* caller p enters Meal.create or Drink.create
BeginCreate(p) ==
    /\ calls[p].pc = "idle"
    /\ \/ \E data \in MealInputs :
              calls' = [calls EXCEPT ![p] = [op |-> "Meal.create",
                                             args |-> [data |-> data],
                                             pc |-> "duplicateCheck", err |-> NoError]]
       \/ \E data \in DrinkInputs :
              calls' = [calls EXCEPT ![p] = [op |-> "Drink.create",
                                             args |-> [data |-> data],
                                             pc |-> "duplicateCheck", err |-> NoError]]
    /\ nops' = nops + 1
    /\ UNCHANGED <<db, resp>>

\* caller p enters User.register
BeginRegister(p) ==
    /\ calls[p].pc = "idle"
    /\ \E data \in ConcRegisterInputs :
           calls' = [calls EXCEPT ![p] = [op |-> "User.register",
                                          args |-> [data |-> data],
                                          pc |-> "duplicateCheck", err |-> NoError]]
    /\ nops' = nops + 1
    /\ UNCHANGED <<db, resp>>

\* SELECT name FROM meals / drinks WHERE name = $1, or SELECT username FROM
\* users WHERE username = $1, and the throw after it
StepDuplicateCheck(p) ==
    /\ calls[p].pc = "duplicateCheck"
    /\ LET data == calls[p].args.data
       IN  calls' = [calls EXCEPT ![p] =
               IF calls[p].op = "User.register"
               THEN IF \E u \in db.users : u.username = data.username
                    THEN [@ EXCEPT !.pc = "done",
                                   !.err = BadRequestError("Duplicate username: "
                                                           \o data.username)]
                    ELSE [@ EXCEPT !.pc = "hash"]
               ELSE IF \E r \in db[CreateTable(calls[p].op).t] : r.name = data.name
                    THEN [@ EXCEPT !.pc = "done",
                                   !.err = BadRequestError(
                                       "Duplicate " \o CreateTable(calls[p].op).what
                                       \o ": " \o data.name)]
                    ELSE [@ EXCEPT !.pc = "insert"]]
    /\ UNCHANGED <<db, resp, nops>>

\* await bcrypt.hash(password, BCRYPT_WORK_FACTOR)
StepHash(p) ==
    /\ calls[p].pc = "hash"
    /\ calls' = [calls EXCEPT ![p] = [@ EXCEPT !.pc = "insert"]]
    /\ UNCHANGED <<db, resp, nops>>

\* the INSERT of create or register
StepInsert(p) ==
    /\ calls[p].pc = "insert"
    /\ LET r == IF calls[p].op = "User.register"
                THEN InsertUser(db, calls[p].args.data)
                ELSE InsertRecipe(db, CreateTable(calls[p].op), calls[p].args.data)
       IN  /\ db' = r.db
           /\ calls' = [calls EXCEPT ![p] = [@ EXCEPT !.pc = "done", !.err = r.err]]
    /\ UNCHANGED <<resp, nops>>

NextCreateConc ==
    \E p \in Procs :
        \/ BeginCreate(p)
        \/ BeginRegister(p)
        \/ StepDuplicateCheck(p)
        \/ StepHash(p)
        \/ StepInsert(p)

SpecCreateConc == InitFavConc /\ [][NextCreateConc]_vars

(***************************************************************************)
(* HTTP layer: middleware/auth, app.js, routes/users.js                    *)
(*                                                                         *)
(* identity is the username authenticateJWT put in res.locals.user, "" when*)
(* the request carried no valid token.  A request body is a flag telling   *)
(* whether it passes the route's JSON schema, and the data it carries.     *)
(***************************************************************************)
Anonymous == ""

ensureLoggedIn(identity) == identity # Anonymous

ensureCorrectUser(identity, username) ==
    identity # Anonymous /\ identity = username

\* the generic error handler without the "|| 500" default
ErrorStatusWithoutDefault(err) == err.status

\* app.js: const status = err.status || 500
ErrorStatus(err) == IF err.status = 0 THEN 500 ELSE err.status

\* res.status(status).json({ error: { message, status } })
ErrorBody(err) == <<[error |-> [message |-> err.message, status |-> ErrorStatus(err)]]>>

\* router.get("/", ensureLoggedIn, ...)
GetUsers(d, identity) ==
    IF ~ensureLoggedIn(identity) THEN Throw(d, UnauthorizedError("Unauthorized"), 0)
    ELSE UserFindAll(d)

\* router.get("/:username", ensureCorrectUser, ...)
GetUser(d, identity, username, favMeals, favDrinks) ==
    IF ~ensureCorrectUser(identity, username)
    THEN Throw(d, UnauthorizedError("Unauthorized"), 0)
    ELSE UserGet(d, username, favMeals, favDrinks)

\* router.patch("/:username", ensureCorrectUser, ...)
PatchUser(d, identity, username, body) ==
    IF ~ensureCorrectUser(identity, username)
    THEN Throw(d, UnauthorizedError("Unauthorized"), 0)
    ELSE IF ~body.valid THEN Throw(d, BadRequestError("schema"), 0)
    ELSE UserUpdate(d, username, body.data)

\* router.delete("/:username", ensureCorrectUser, ...)
DeleteUser(d, identity, username, policy) ==
    IF ~ensureCorrectUser(identity, username)
    THEN Throw(d, UnauthorizedError("Unauthorized"), 0)
    ELSE UserRemove(d, username, policy)

\* the schema the POST route validates the body against
NewSchema(type) == IF type = "meals" THEN "mealNew" ELSE "drinkNew"

\* the schema the PATCH route validates the body against
UpdateSchema(type) == IF type = "meals" THEN "mealUpdate" ELSE "drinkUpdate"

\* jsonschema.validate(req.body, schema).valid: a body of a personal-recipe
\* request carries the set of schemas it passes
Validates(schema, body) == schema \in body.schemas

\* router.get("/:username/:type/personal", ensureCorrectUser, ...)
GetPersonalRecipes(d, identity, username, type, rows) ==
    IF ~ensureCorrectUser(identity, username)
    THEN Throw(d, UnauthorizedError("Unauthorized"), 0)
    ELSE UserGetPersonalRecipes(d, username, type, rows)

\* the POST route answering 400 to a type that is neither meals nor drinks
PostPersonalRecipeRejectsUnknownType(d, identity, username, type, body, fk) ==
    IF ~ensureCorrectUser(identity, username)
    THEN Throw(d, UnauthorizedError("Unauthorized"), 0)
    ELSE IF type \notin {"meals", "drinks"}
    THEN Throw(d, BadRequestError("type"), 0)
    ELSE IF ~Validates(NewSchema(type), body)
    THEN Throw(d, BadRequestError("schema"), 0)
    ELSE UserCreatePersonalRecipe(d, username, type, body.data, fk)

\* router.post("/:username/:type/personal", ensureCorrectUser, ...)
PostPersonalRecipe(d, identity, username, type, body, fk) ==
    IF ~ensureCorrectUser(identity, username)
    THEN Throw(d, UnauthorizedError("Unauthorized"), 0)
    ELSE IF ~Validates(NewSchema(type), body)
    THEN Throw(d, BadRequestError("schema"), 0)
    ELSE UserCreatePersonalRecipe(d, username, type, body.data, fk)

\* router.get("/:username/:type/personal/:id", ensureCorrectUser, ...)
GetPersonalRecipe(d, identity, username, type, id) ==
    IF ~ensureCorrectUser(identity, username)
    THEN Throw(d, UnauthorizedError("Unauthorized"), 0)
    ELSE UserGetPersonalRecipe(d, id, username, type)

\* the PATCH route guarded by ensureLoggedIn instead of ensureCorrectUser
PatchPersonalRecipeAnyUser(d, identity, username, type, id, body) ==
    IF ~ensureLoggedIn(identity)
    THEN Throw(d, UnauthorizedError("Unauthorized"), 0)
    ELSE IF ~Validates(UpdateSchema(type), body)
    THEN Throw(d, BadRequestError("schema"), 0)
    ELSE UserUpdatePersonalRecipe(d, id, type, body.data)

\* router.patch("/:username/:type/personal/:id", ensureCorrectUser, ...)
PatchPersonalRecipe(d, identity, username, type, id, body) ==
    IF ~ensureCorrectUser(identity, username)
    THEN Throw(d, UnauthorizedError("Unauthorized"), 0)
    ELSE IF ~Validates(UpdateSchema(type), body)
    THEN Throw(d, BadRequestError("schema"), 0)
    ELSE UserUpdatePersonalRecipe(d, id, type, body.data)

\* router.post("/:username/meals/:id/:action", ensureCorrectUser, ...)
PostFavMeal(d, identity, username, mealId, action) ==
    IF ~ensureCorrectUser(identity, username)
    THEN Throw(d, UnauthorizedError("Unauthorized"), 0)
    ELSE IF action # "add" /\ action # "remove"
    THEN Throw(d, BadRequestError("Bad Request"), 0)
    ELSE IF action = "add" THEN UserMarkFavMeal(d, username, mealId)
    ELSE UserUnmarkFavMeal(d, username, mealId)

\* router.post("/:username/drinks/:id/:action", ensureCorrectUser, ...)
PostFavDrink(d, identity, username, drinkId, action) ==
    IF ~ensureCorrectUser(identity, username)
    THEN Throw(d, UnauthorizedError("Unauthorized"), 0)
    ELSE IF action # "add" /\ action # "remove"
    THEN Throw(d, BadRequestError("Bad Request"), 0)
    ELSE IF action = "add" THEN UserMarkFavDrink(d, username, drinkId)
    ELSE UserUnmarkFavDrink(d, username, drinkId)

(***************************************************************************)
(* Requests to /users                                                      *)
(***************************************************************************)
Identities == {Anonymous, "u1", "u2"}

PathUsernames == {"u1", "u2"}

\* 0 is never an id, 1 is seeded, SeedRows + 1 is the first id created
PathIds == {0, 1, SeedRows + 1}

Actions == {"add", "remove", "toggle"}

\* a body the route's schema rejects
InvalidBody == [valid |-> FALSE, data |-> <<>>]

Bodies(datas) == {InvalidBody} \cup {[valid |-> TRUE, data |-> x] : x \in datas}

\* the request op(args) was answered with the handler's outcome r; a handler
\* that returns answers with status ok, a handler that throws goes through
\* the error handler
Respond(op, args, r, ok) ==
    /\ nops < MaxOps
    /\ nops' = nops + 1
    /\ db' = r.db
    /\ resp' = [op |-> op, args |-> args, err |-> r.err,
                body |-> IF r.err = NoError THEN r.body ELSE ErrorBody(r.err),
                nq |-> r.nq,
                status |-> IF r.err = NoError THEN ok ELSE ErrorStatus(r.err)]
    /\ UNCHANGED calls

ReqGetUsers ==
    \E identity \in Identities :
        Respond("GET /users", [identity |-> identity], GetUsers(db, identity), 200)

ReqGetUser ==
    \E identity \in Identities, username \in PathUsernames :
        \E favMeals \in AnyOrder(FavMealIds(db, username)),
           favDrinks \in AnyOrder(FavDrinkIds(db, username)) :
            Respond("GET /users/:username",
                    [identity |-> identity, username |-> username],
                    GetUser(db, identity, username, favMeals, favDrinks), 200)

ReqPatchUser ==
    \E identity \in Identities, username \in PathUsernames,
       body \in Bodies(UserUpdates) :
        Respond("PATCH /users/:username",
                [identity |-> identity, username |-> username, body |-> body],
                PatchUser(db, identity, username, body), 200)

ReqDeleteUser ==
    \E identity \in Identities, username \in PathUsernames,
       policy \in PersonalFkPolicies :
        Respond("DELETE /users/:username",
                [identity |-> identity, username |-> username],
                DeleteUser(db, identity, username, policy), 200)

\* the :type segment of a personal-recipe path is any string
PathTypes == Types \cup {"other"}

SchemaBody(schemas, data) == [valid |-> schemas # {}, schemas |-> schemas, data |-> data]

PersonalNewBodies ==
    {SchemaBody({}, <<>>), SchemaBody({"mealNew"}, NewMeal),
     SchemaBody({"drinkNew"}, NewDrink)}

PersonalUpdateBodies ==
    {SchemaBody({}, <<>>), SchemaBody({"drinkUpdate"}, <<<<"glass", "New Glass">>>>)}
    \cup {SchemaBody({"mealUpdate", "drinkUpdate"}, x) : x \in PersonalUpdates}

ReqGetPersonalRecipes ==
    \E identity \in Identities, username \in PathUsernames, type \in PathTypes :
        \E rows \in OrderBy(PersonalRows(db, username, type), "name") :
            Respond("GET /users/:username/:type/personal",
                    [identity |-> identity, username |-> username, type |-> type],
                    GetPersonalRecipes(db, identity, username, type, rows), 200)

ReqPostPersonalRecipe ==
    \E identity \in Identities, username \in PathUsernames, type \in PathTypes,
       fk \in BOOLEAN, body \in PersonalNewBodies :
        Respond("POST /users/:username/:type/personal",
                [identity |-> identity, username |-> username, type |-> type,
                 body |-> body],
                PostPersonalRecipe(db, identity, username, type, body, fk), 201)

ReqGetPersonalRecipe ==
    \E identity \in Identities, username \in PathUsernames, type \in PathTypes,
       id \in PathIds :
        Respond("GET /users/:username/:type/personal/:id",
                [identity |-> identity, username |-> username, type |-> type,
                 id |-> id],
                GetPersonalRecipe(db, identity, username, type, id), 200)

ReqPatchPersonalRecipe ==
    \E identity \in Identities, username \in PathUsernames, type \in PathTypes,
       id \in PathIds, body \in PersonalUpdateBodies :
        Respond("PATCH /users/:username/:type/personal/:id",
                [identity |-> identity, username |-> username, type |-> type,
                 id |-> id, body |-> body],
                PatchPersonalRecipe(db, identity, username, type, id, body), 200)

ReqPostFavMeal ==
    \E identity \in Identities, username \in PathUsernames, id \in PathIds,
       action \in Actions :
        Respond("POST /users/:username/meals/:id/:action",
                [identity |-> identity, username |-> username, id |-> id,
                 action |-> action],
                PostFavMeal(db, identity, username, id, action), 200)

ReqPostFavDrink ==
    \E identity \in Identities, username \in PathUsernames, id \in PathIds,
       action \in Actions :
        Respond("POST /users/:username/drinks/:id/:action",
                [identity |-> identity, username |-> username, id |-> id,
                 action |-> action],
                PostFavDrink(db, identity, username, id, action), 200)

\* a request no route matches: the 404 handler passes a NotFoundError on
ReqUnmatchedRoute ==
    \E identity \in Identities :
        Respond("GET /unmatched", [identity |-> identity],
                Throw(db, NotFoundError("Not Found"), 0), 200)

NextUsersHttp ==
    \/ ReqGetUsers
    \/ ReqGetUser
    \/ ReqPatchUser
    \/ ReqDeleteUser
    \/ ReqGetPersonalRecipes
    \/ ReqPostPersonalRecipe
    \/ ReqGetPersonalRecipe
    \/ ReqPatchPersonalRecipe
    \/ ReqPostFavMeal
    \/ ReqPostFavDrink
    \/ ReqUnmatchedRoute

SpecUsersHttp == Init /\ [][NextUsersHttp]_vars

(***************************************************************************)
(* routes/meals.js and routes/drinks.js                                    *)
(***************************************************************************)
\* router.get("/dump", ...): dataArr is what the recipe API answered, made
\* into meal objects
GetMealsDump(d, identity, dataArr) == MealDumpData(d, dataArr)

\* router.post("/", ensureLoggedIn, ...)
PostMeal(d, identity, body) ==
    IF ~ensureLoggedIn(identity) THEN Throw(d, UnauthorizedError("Unauthorized"), 0)
    ELSE IF ~body.valid THEN Throw(d, BadRequestError("schema"), 0)
    ELSE MealCreate(d, body.data)

\* router.get("/", ...)
GetMeals(d, identity, q, rows) ==
    IF ~q.valid THEN Throw(d, BadRequestError("schema"), 0)
    ELSE MealFindAll(d, q.data, rows)

\* router.get("/categories", ...)
GetMealCategories(d, identity) == MealGetCategories(d)

\* router.get("/:id", ...)
GetMeal(d, identity, id) == MealGet(d, id)

\* router.patch("/:id", ensureLoggedIn, ...)
PatchMeal(d, identity, id, body) ==
    IF ~ensureLoggedIn(identity) THEN Throw(d, UnauthorizedError("Unauthorized"), 0)
    ELSE IF ~body.valid THEN Throw(d, BadRequestError("schema"), 0)
    ELSE MealUpdate(d, id, body.data)

\* router.delete("/:id", ensureLoggedIn, ...)
DeleteMeal(d, identity, id) ==
    IF ~ensureLoggedIn(identity) THEN Throw(d, UnauthorizedError("Unauthorized"), 0)
    ELSE MealRemove(d, id)

\* router.get("/dump", ...)
GetDrinksDump(d, identity, dataArr) == DrinkDumpData(d, dataArr)

\* router.post("/", ensureLoggedIn, ...)
PostDrink(d, identity, body) ==
    IF ~ensureLoggedIn(identity) THEN Throw(d, UnauthorizedError("Unauthorized"), 0)
    ELSE IF ~body.valid THEN Throw(d, BadRequestError("schema"), 0)
    ELSE DrinkCreate(d, body.data)

\* router.get("/", ...)
GetDrinks(d, identity, q, rows) ==
    IF ~q.valid THEN Throw(d, BadRequestError("schema"), 0)
    ELSE DrinkFindAll(d, q.data, rows)

\* router.get("/:id", ...)
GetDrink(d, identity, id) == DrinkGet(d, id)

\* router.patch("/:id", ensureLoggedIn, ...)
PatchDrink(d, identity, id, body) ==
    IF ~ensureLoggedIn(identity) THEN Throw(d, UnauthorizedError("Unauthorized"), 0)
    ELSE IF ~body.valid THEN Throw(d, BadRequestError("schema"), 0)
    ELSE DrinkUpdate(d, id, body.data)

\* router.delete("/:id", ensureLoggedIn, ...)
DeleteDrink(d, identity, id) ==
    IF ~ensureLoggedIn(identity) THEN Throw(d, UnauthorizedError("Unauthorized"), 0)
    ELSE DrinkRemove(d, id)

(***************************************************************************)
(* Requests to /meals and /drinks                                          *)
(***************************************************************************)
NoFilter == [k \in {} |-> ""]

MealQueries == {NoFilter, [name |-> "m"], [category |-> "cat2", area |-> "a_"]}

DrinkQueries == {NoFilter, [name |-> "d"], [category |-> "cat2", type |-> "t_"]}

ReqGetMealsDump ==
    \E identity \in Identities, dataArr \in MealDumps :
        Respond("GET /meals/dump", [identity |-> identity, dataArr |-> dataArr],
                GetMealsDump(db, identity, dataArr), 200)

ReqPostMeal ==
    \E identity \in Identities, body \in Bodies(MealInputs) :
        Respond("POST /meals", [identity |-> identity, body |-> body],
                PostMeal(db, identity, body), 201)

ReqGetMeals ==
    \E identity \in Identities, q \in Bodies(MealQueries) :
        \E rows \in OrderBy(MealMatches(db, q.data), "name") :
            Respond("GET /meals", [identity |-> identity, q |-> q],
                    GetMeals(db, identity, q, rows), 200)

ReqGetMealCategories ==
    \E identity \in Identities :
        Respond("GET /meals/categories", [identity |-> identity],
                GetMealCategories(db, identity), 200)

ReqGetMeal ==
    \E identity \in Identities, id \in PathIds :
        Respond("GET /meals/:id", [identity |-> identity, id |-> id],
                GetMeal(db, identity, id), 200)

ReqPatchMeal ==
    \E identity \in Identities, id \in PathIds, body \in Bodies(MealUpdates) :
        Respond("PATCH /meals/:id",
                [identity |-> identity, id |-> id, body |-> body],
                PatchMeal(db, identity, id, body), 200)

ReqDeleteMeal ==
    \E identity \in Identities, id \in PathIds :
        Respond("DELETE /meals/:id", [identity |-> identity, id |-> id],
                DeleteMeal(db, identity, id), 200)

ReqGetDrinksDump ==
    \E identity \in Identities, dataArr \in DrinkDumps :
        Respond("GET /drinks/dump", [identity |-> identity, dataArr |-> dataArr],
                GetDrinksDump(db, identity, dataArr), 200)

ReqPostDrink ==
    \E identity \in Identities, body \in Bodies(DrinkInputs) :
        Respond("POST /drinks", [identity |-> identity, body |-> body],
                PostDrink(db, identity, body), 201)

ReqGetDrinks ==
    \E identity \in Identities, q \in Bodies(DrinkQueries) :
        \E rows \in OrderBy(DrinkMatches(db, q.data), "name") :
            Respond("GET /drinks", [identity |-> identity, q |-> q],
                    GetDrinks(db, identity, q, rows), 200)

ReqGetDrink ==
    \E identity \in Identities, id \in PathIds :
        Respond("GET /drinks/:id", [identity |-> identity, id |-> id],
                GetDrink(db, identity, id), 200)

ReqPatchDrink ==
    \E identity \in Identities, id \in PathIds, body \in Bodies(DrinkUpdates) :
        Respond("PATCH /drinks/:id",
                [identity |-> identity, id |-> id, body |-> body],
                PatchDrink(db, identity, id, body), 200)

ReqDeleteDrink ==
    \E identity \in Identities, id \in PathIds :
        Respond("DELETE /drinks/:id", [identity |-> identity, id |-> id],
                DeleteDrink(db, identity, id), 200)

NextCatalogHttp ==
    \/ ReqGetMealsDump
    \/ ReqPostMeal
    \/ ReqGetMeals
    \/ ReqGetMealCategories
    \/ ReqGetMeal
    \/ ReqPatchMeal
    \/ ReqDeleteMeal
    \/ ReqGetDrinksDump
    \/ ReqPostDrink
    \/ ReqGetDrinks
    \/ ReqGetDrink
    \/ ReqPatchDrink
    \/ ReqDeleteDrink

SpecCatalogHttp == Init /\ [][NextCatalogHttp]_vars

(***************************************************************************)
(* Calls of findAll, with the calls that change what it lists              *)
(***************************************************************************)
CallMealFindAll ==
    \E searchFilters \in MealQueries :
        \E rows \in OrderBy(MealMatches(db, searchFilters), "name") :
            Call("Meal.findAll", [searchFilters |-> searchFilters],
                 MealFindAll(db, searchFilters, rows))

CallDrinkFindAll ==
    \E searchFilters \in DrinkQueries :
        \E rows \in OrderBy(DrinkMatches(db, searchFilters), "name") :
            Call("Drink.findAll", [searchFilters |-> searchFilters],
                 DrinkFindAll(db, searchFilters, rows))

NextQuery ==
    \/ CallMealFindAll
    \/ CallDrinkFindAll
    \/ CallMealCreate
    \/ CallMealUpdate
    \/ CallMealRemove
    \/ CallDrinkCreate
    \/ CallDrinkUpdate
    \/ CallDrinkRemove

SpecQuery == Init /\ [][NextQuery]_vars

(***************************************************************************)
(* The builder on its own: every mapping of at most MaxLen keys, with and  *)
(* without the rename mapping User.update passes                           *)
(***************************************************************************)
BuilderKeys == {"name", "firstName", "lastName", "password"}

BuilderValues == {"a", "b"}

\* the update mappings of at most n keys
RECURSIVE Mappings(_)
Mappings(n) ==
    IF n = 0 THEN {<<>>}
    ELSE Mappings(n - 1) \cup
         {Append(m, <<k, v>>) :
             m \in {x \in Mappings(n - 1) : Len(x) = n - 1},
             k \in BuilderKeys, v \in BuilderValues}

DistinctKeys(data) ==
    \A i, j \in 1..Len(data) : data[i][1] = data[j][1] => i = j

BuilderInputs ==
    {[data |-> m, jsToSql |-> j] :
        m \in {x \in Mappings(MaxLen) : DistinctKeys(x)}, j \in {NoRename, UserRename}}

InitBuilder ==
    /\ db = EmptyDb
    /\ nops = 0
    /\ calls = <<>>
    /\ \E in \in BuilderInputs :
           resp = [op |-> "input", args |-> in, err |-> NoError, body |-> <<>>,
                   nq |-> 0]

BuildUpdate ==
    /\ resp.op = "input"
    /\ LET built == sqlForPartialUpdate(resp.args.data, resp.args.jsToSql)
       IN  resp' = [op |-> "sqlForPartialUpdate", args |-> resp.args,
                    err |-> built.err,
                    body |-> <<[setCols |-> built.setCols, values |-> built.values]>>,
                    nq |-> 0]
    /\ UNCHANGED <<db, nops, calls>>

NextBuilder == BuildUpdate

SpecBuilder == InitBuilder /\ [][NextBuilder]_vars

(***************************************************************************)
(* Properties                                                              *)
(***************************************************************************)
\* C1: for every non-empty update mapping with keys k1..kN the builder
\* returns exactly N fragments and N values; fragment i is
\* "<column of k_i> = $i", value i is the value given for k_i, and the
\* placeholders are exactly 1..N.
BuilderOneFragmentPerKey ==
    (resp.op = "sqlForPartialUpdate" /\ Len(resp.args.data) > 0) =>
        LET data == resp.args.data
            out == resp.body[1]
            N == Len(data)
        IN  /\ resp.err = NoError
            /\ Len(out.setCols) = N
            /\ Len(out.values) = N
            /\ \A i \in 1..N :
                  /\ out.setCols[i].col = ColumnOf(data[i][1], resp.args.jsToSql)
                  /\ out.setCols[i].ph = i
                  /\ out.values[i] = data[i][2]
            /\ {out.setCols[i].ph : i \in 1..N} = 1..N

\* the builder has returned for a mapping of two keys, one of them renamed
BuilderTwoKeysBuilt ==
    /\ resp.op = "sqlForPartialUpdate"
    /\ Len(resp.args.data) = 2
    /\ resp.args.data[2][1] = "firstName"
    /\ resp.args.jsToSql = UserRename
    /\ resp.body[1].setCols[2] = Fragment("first_name", 2)

UpdateOps == {"Meal.update", "Drink.update", "User.update",
              "User.updatePersonalRecipe"}

\* C2: an update with an empty field mapping fails with BadRequest for
\* Meal.update, Drink.update, User.update and User.updatePersonalRecipe,
\* whether or not the target row exists; no statement is sent and the store
\* is unchanged.
EmptyUpdateIsBadRequest ==
    [][(resp'.op \in UpdateOps /\ resp'.args.data = <<>>) =>
          /\ resp'.err.kind = "BadRequest"
          /\ resp'.nq = 0
          /\ db' = db]_vars

\* Meal.update was called with an empty mapping on a meal that exists
EmptyUpdateOfExistingMeal ==
    /\ resp.op = "Meal.update"
    /\ resp.args.data = <<>>
    /\ \E r \in db.meals : r.id = resp.args.id
    /\ resp.err.kind = "BadRequest"

\* the personal table a request's :type selects
TableOf(type) == IF type = "meals" THEN "personal_meals" ELSE "personal_drinks"

\* C3: personal-recipe reads and updates act only on recipes owned by the
\* user they are performed for: the list holds only the user's recipes, a
\* recipe of another user is NotFound, and a PATCH made by user u changes no
\* recipe owned by a different user.
PersonalRecipesScopedToOwner ==
    [][/\ (resp'.op = "GET /users/:username/:type/personal" /\ resp'.status = 200) =>
             \A i \in 1..Len(resp'.body) :
                 \E r \in db[TableOf(resp'.args.type)] :
                     r.id = resp'.body[i].id /\ r.username = resp'.args.username
       /\ (/\ resp'.op = "GET /users/:username/:type/personal/:id"
           /\ resp'.args.identity = resp'.args.username
           /\ \E r \in db[TableOf(resp'.args.type)] :
                  r.id = resp'.args.id /\ r.username # resp'.args.username) =>
             resp'.err.kind = "NotFound"
       /\ (/\ resp'.op = "PATCH /users/:username/:type/personal/:id"
           /\ resp'.args.identity = resp'.args.username) =>
             \A r \in db[TableOf(resp'.args.type)] :
                 r.username # resp'.args.username =>
                     r \in db'[TableOf(resp'.args.type)]]_vars

UsernameRoutes ==
    {"GET /users/:username", "PATCH /users/:username", "DELETE /users/:username",
     "GET /users/:username/:type/personal", "POST /users/:username/:type/personal",
     "GET /users/:username/:type/personal/:id",
     "PATCH /users/:username/:type/personal/:id",
     "POST /users/:username/meals/:id/:action",
     "POST /users/:username/drinks/:id/:action"}

\* C4: on every route under /users/:username a request with no valid token
\* identity, or whose identity differs from :username, is answered 401 and
\* runs no repository operation (the store is unchanged), even with an
\* invalid body or a missing target.
WrongUserIsUnauthorized ==
    [][(/\ resp'.op \in UsernameRoutes
        /\ \/ resp'.args.identity = Anonymous
           \/ resp'.args.identity # resp'.args.username) =>
          /\ resp'.status = 401
          /\ resp'.err.kind = "Unauthorized"
          /\ resp'.nq = 0
          /\ db' = db]_vars

\* another user sent an invalid body to PATCH a recipe that does not exist
\* and was answered 401
WrongUserPatchedMissingRecipe ==
    /\ resp.op = "PATCH /users/:username/:type/personal/:id"
    /\ resp.args.identity = "u2"
    /\ resp.args.username = "u1"
    /\ resp.args.id = 0
    /\ ~resp.args.body.valid
    /\ resp.status = 401


CatalogWriteRoutes ==
    {"GET /meals/dump", "POST /meals", "PATCH /meals/:id", "DELETE /meals/:id",
     "GET /drinks/dump", "POST /drinks", "PATCH /drinks/:id", "DELETE /drinks/:id"}

CatalogReadRoutes ==
    {"GET /meals", "GET /meals/categories", "GET /meals/:id",
     "GET /drinks", "GET /drinks/:id"}

\* C5: every request under /meals and /drinks that changes the store carries
\* a bearer identity, and the same request without one is answered 401 and
\* leaves the store unchanged; the read routes never answer 401 to an
\* anonymous request.
CatalogWritesNeedIdentity ==
    [][/\ (resp'.op \in CatalogWriteRoutes /\ resp'.args.identity = Anonymous) =>
             /\ resp'.status = 401
             /\ db' = db
       /\ (resp'.op \in CatalogWriteRoutes \cup CatalogReadRoutes /\ db' # db) =>
             resp'.args.identity # Anonymous
       /\ (resp'.op \in CatalogReadRoutes /\ resp'.args.identity = Anonymous) =>
             resp'.status # 401]_vars

\* C6: after any sequence of create, update and dumpData calls no two rows
\* of meals share a name and no two rows of drinks share a name.
NoDuplicateNames ==
    /\ \A r1, r2 \in db.meals : r1.name = r2.name => r1 = r2
    /\ \A r1, r2 \in db.drinks : r1.name = r2.name => r1 = r2

\* C7: Meal.create or Drink.create with a name that exists, and
\* User.register with a username that exists, fail with the BadRequest
\* "Duplicate ..." error and insert nothing.
DuplicateCreateIsBadRequest ==
    [][/\ (/\ resp'.op = "Meal.create"
           /\ \E r \in db.meals : r.name = resp'.args.data.name) =>
             /\ resp'.err = BadRequestError("Duplicate meal: " \o resp'.args.data.name)
             /\ db' = db
       /\ (/\ resp'.op = "Drink.create"
           /\ \E r \in db.drinks : r.name = resp'.args.data.name) =>
             /\ resp'.err = BadRequestError("Duplicate drink: " \o resp'.args.data.name)
             /\ db' = db
       /\ (/\ resp'.op = "User.register"
           /\ \E u \in db.users : u.username = resp'.args.data.username) =>
             /\ resp'.err = BadRequestError("Duplicate username: "
                                            \o resp'.args.data.username)
             /\ db' = db]_vars

\* Meal.create was called with the name of a seeded meal and refused
DuplicateMealRefused ==
    /\ resp.op = "Meal.create"
    /\ resp.args.data.name = "M1"
    /\ \E r \in db.meals : r.name = "M1"
    /\ resp.err.kind = "BadRequest"

\* the row an update call addresses is in store d
UpdateTargetExists(d, op, args) ==
    CASE op = "Meal.update" -> \E r \in d.meals : r.id = args.id
      [] op = "Drink.update" -> \E r \in d.drinks : r.id = args.id
      [] op = "User.update" -> \E u \in d.users : u.username = args.username
      [] op = "User.updatePersonalRecipe" ->
             \E r \in d[TableOf(args.type)] : r.id = args.id

\* C8: an update with a non-empty mapping whose target row does not exist
\* fails with NotFound and changes no row.
UpdateOfMissingIsNotFound ==
    [][(/\ resp'.op \in UpdateOps
        /\ resp'.args.data # <<>>
        /\ ~UpdateTargetExists(db, resp'.op, resp'.args)) =>
          /\ resp'.err.kind = "NotFound"
          /\ db' = db]_vars

\* a personal drink that does not exist was updated with a non-empty mapping
MissingPersonalDrinkUpdated ==
    /\ resp.op = "User.updatePersonalRecipe"
    /\ resp.args.type = "drinks"
    /\ resp.args.data # <<>>
    /\ ~UpdateTargetExists(db, resp.op, resp.args)
    /\ resp.err.kind = "NotFound"

\* C9: after a successful remove(id), get(id) fails with NotFound, for
\* Meal, Drink and User: in the store the remove leaves get fails, and a get
\* called right after the remove fails.
GetAfterRemoveIsNotFound ==
    [][/\ (resp'.op = "Meal.remove" /\ resp'.err = NoError) =>
             MealGet(db', resp'.args.id).err.kind = "NotFound"
       /\ (resp'.op = "Drink.remove" /\ resp'.err = NoError) =>
             DrinkGet(db', resp'.args.id).err.kind = "NotFound"
       /\ (resp'.op = "User.remove" /\ resp'.err = NoError) =>
             UserGet(db', resp'.args.username, <<>>, <<>>).err.kind = "NotFound"
       /\ (/\ resp.op = "Meal.remove" /\ resp.err = NoError
           /\ resp'.op = "Meal.get" /\ resp'.args.id = resp.args.id) =>
             resp'.err.kind = "NotFound"
       /\ (/\ resp.op = "Drink.remove" /\ resp.err = NoError
           /\ resp'.op = "Drink.get" /\ resp'.args.id = resp.args.id) =>
             resp'.err.kind = "NotFound"
       /\ (/\ resp.op = "User.remove" /\ resp.err = NoError
           /\ resp'.op = "User.get" /\ resp'.args.username = resp.args.username) =>
             resp'.err.kind = "NotFound"]_vars

\* seeded meal 1 was removed and then asked for
RemovedMealAskedFor ==
    /\ resp.op = "Meal.get"
    /\ resp.args.id = 1
    /\ nops = 2
    /\ \A r \in db.meals : r.id # 1
    /\ resp.err.kind = "NotFound"

RemoveOps == {"Meal.remove", "Drink.remove", "User.remove"}

\* the row a remove call addresses is in store d
RemoveTargetExists(d, op, args) ==
    CASE op = "Meal.remove" -> \E r \in d.meals : r.id = args.id
      [] op = "Drink.remove" -> \E r \in d.drinks : r.id = args.id
      [] op = "User.remove" -> \E u \in d.users : u.username = args.username

\* C10: remove of a row that does not exist fails with NotFound and leaves
\* every table unchanged.
RemoveOfMissingIsNotFound ==
    [][(resp'.op \in RemoveOps /\ ~RemoveTargetExists(db, resp'.op, resp'.args)) =>
          /\ resp'.err.kind = "NotFound"
          /\ db' = db]_vars

\* a drink that does not exist was removed
MissingDrinkRemoved ==
    /\ resp.op = "Drink.remove"
    /\ ~RemoveTargetExists(db, resp.op, resp.args)
    /\ resp.err.kind = "NotFound"


\* the input fields plus the generated id
WithId(data, cols, id) == [c \in cols \cup {"id"} |-> IF c = "id" THEN id ELSE data[c]]

\* C11: create followed by get of the returned id yields a record equal to
\* the input fields plus the generated id, for Meal, Drink and the personal
\* recipes of both types (read back for the same username): the record
\* create returns is that record, get on the store create leaves returns it,
\* and a get called right after the create returns it.
CreateThenGetRoundTrip ==
    [][/\ (resp'.op = "Meal.create" /\ resp'.err = NoError) =>
             LET meal == resp'.body[1]
             IN  /\ meal = WithId(resp'.args.data, MealCols, meal.id)
                 /\ MealGet(db', meal.id).err = NoError
                 /\ MealGet(db', meal.id).body = <<meal>>
       /\ (resp'.op = "Drink.create" /\ resp'.err = NoError) =>
             LET drink == resp'.body[1]
             IN  /\ drink = WithId(resp'.args.data, DrinkCols, drink.id)
                 /\ DrinkGet(db', drink.id).err = NoError
                 /\ DrinkGet(db', drink.id).body = <<drink>>
       /\ (resp'.op = "User.createPersonalRecipe" /\ resp'.err = NoError) =>
             LET personalRecipe == resp'.body[1]
                 type == resp'.args.type
                 got == UserGetPersonalRecipe(db', personalRecipe.id,
                                              resp'.args.username, type)
             IN  /\ personalRecipe = WithId(resp'.args.data,
                                            PersonalCols(type) \ {"id"},
                                            personalRecipe.id)
                 /\ got.err = NoError
                 /\ got.body = <<personalRecipe>>
       /\ (/\ resp.op = "Meal.create" /\ resp.err = NoError
           /\ resp'.op = "Meal.get" /\ resp'.args.id = resp.body[1].id) =>
             resp'.body = <<WithId(resp.args.data, MealCols, resp'.args.id)>>
       /\ (/\ resp.op = "Drink.create" /\ resp.err = NoError
           /\ resp'.op = "Drink.get" /\ resp'.args.id = resp.body[1].id) =>
             resp'.body = <<WithId(resp.args.data, DrinkCols, resp'.args.id)>>
       /\ (/\ resp.op = "User.createPersonalRecipe" /\ resp.err = NoError
           /\ resp'.op = "User.getPersonalRecipe"
           /\ resp'.args.id = resp.body[1].id
           /\ resp'.args.type = resp.args.type
           /\ resp'.args.username = resp.args.username) =>
             resp'.body = <<WithId(resp.args.data,
                                   PersonalCols(resp.args.type) \ {"id"},
                                   resp'.args.id)>>]_vars

\* a personal drink was created and then read back by its owner
CreatedPersonalDrinkReadBack ==
    /\ resp.op = "User.getPersonalRecipe"
    /\ resp.args.type = "drinks"
    /\ resp.args.id = SeedRows + 1
    /\ resp.err = NoError
    /\ resp.body[1].name = NewDrink.name
    /\ resp.body[1].glass = NewDrink.glass


FavMealOps == {"User.markFavMeal", "User.unmarkFavMeal"}

FavDrinkOps == {"User.markFavDrink", "User.unmarkFavDrink"}

\* C12: a favorite method called with a meal/drink id or a username that
\* does not exist fails with NotFound before any write: the store is
\* unchanged and the error names the missing entity, the meal/drink when
\* both are missing.
FavOfMissingIsNotFound ==
    [][/\ (/\ resp'.op \in FavMealOps
           /\ \/ ~\E m \in db.meals : m.id = resp'.args.id
              \/ ~\E u \in db.users : u.username = resp'.args.username) =>
             /\ resp'.err =
                    IF ~\E m \in db.meals : m.id = resp'.args.id
                    THEN NotFoundError("No meal: " \o ToString(resp'.args.id))
                    ELSE NotFoundError("No username: " \o resp'.args.username)
             /\ db' = db
       /\ (/\ resp'.op \in FavDrinkOps
           /\ \/ ~\E m \in db.drinks : m.id = resp'.args.id
              \/ ~\E u \in db.users : u.username = resp'.args.username) =>
             /\ resp'.err =
                    IF ~\E m \in db.drinks : m.id = resp'.args.id
                    THEN NotFoundError("No drink: " \o ToString(resp'.args.id))
                    ELSE NotFoundError("No username: " \o resp'.args.username)
             /\ db' = db]_vars

\* a drink that does not exist was favorited by a user that does not exist
MissingDrinkFavoritedByMissingUser ==
    /\ resp.op = "User.markFavDrink"
    /\ resp.args.username = "nope"
    /\ resp.args.id = 0
    /\ resp.err = NotFoundError("No drink: 0")

\* store d2 is store d1 but for the join table t
OnlyTableChanged(d1, d2, t) == d2 = [d1 EXCEPT ![t] = d2[t]]

\* C13: markFavMeal(u, m) and markFavDrink(u, d) for an existing user and
\* meal/drink succeed whether or not the pair is already a favorite, leave
\* exactly one row for the pair and change no other row; called again right
\* after, they succeed and change nothing.
MarkFavIsIdempotent ==
    [][/\ (/\ resp'.op = "User.markFavMeal"
           /\ \E m \in db.meals : m.id = resp'.args.id
           /\ \E u \in db.users : u.username = resp'.args.username) =>
             LET pair == [username |-> resp'.args.username, meal_id |-> resp'.args.id]
             IN  /\ resp'.err = NoError
                 /\ Cardinality({f \in db'.favorite_meals : f = pair}) = 1
                 /\ db'.favorite_meals \ {pair} = db.favorite_meals \ {pair}
                 /\ OnlyTableChanged(db, db', "favorite_meals")
                 /\ UserMarkFavMeal(db', pair.username, pair.meal_id).err = NoError
                 /\ UserMarkFavMeal(db', pair.username, pair.meal_id).db = db'
       /\ (/\ resp'.op = "User.markFavDrink"
           /\ \E m \in db.drinks : m.id = resp'.args.id
           /\ \E u \in db.users : u.username = resp'.args.username) =>
             LET pair == [username |-> resp'.args.username, drink_id |-> resp'.args.id]
             IN  /\ resp'.err = NoError
                 /\ Cardinality({f \in db'.favorite_drinks : f = pair}) = 1
                 /\ db'.favorite_drinks \ {pair} = db.favorite_drinks \ {pair}
                 /\ OnlyTableChanged(db, db', "favorite_drinks")
                 /\ UserMarkFavDrink(db', pair.username, pair.drink_id).err = NoError
                 /\ UserMarkFavDrink(db', pair.username, pair.drink_id).db = db'
       /\ (/\ resp.op \in {"User.markFavMeal", "User.markFavDrink"}
           /\ resp.err = NoError
           /\ resp'.op = resp.op /\ resp'.args = resp.args) =>
             /\ resp'.err = NoError
             /\ db' = db]_vars

\* u1 favorited meal 1, already a favorite in the seeded store, twice more
SeededFavoriteMarkedAgain ==
    /\ resp.op = "User.markFavMeal"
    /\ resp.args = [username |-> "u1", id |-> 1]
    /\ nops = 2
    /\ resp.err = NoError
    /\ db = commonBeforeAll

\* C14: unmarkFavMeal(u, m) and unmarkFavDrink(u, d) for an existing user
\* and meal/drink succeed and leave the pair absent; no other row of the
\* join table changes, and no row at all when the pair was absent before.
UnmarkFavLeavesPairAbsent ==
    [][/\ (/\ resp'.op = "User.unmarkFavMeal"
           /\ \E m \in db.meals : m.id = resp'.args.id
           /\ \E u \in db.users : u.username = resp'.args.username) =>
             LET pair == [username |-> resp'.args.username, meal_id |-> resp'.args.id]
             IN  /\ resp'.err = NoError
                 /\ pair \notin db'.favorite_meals
                 /\ db'.favorite_meals = db.favorite_meals \ {pair}
                 /\ OnlyTableChanged(db, db', "favorite_meals")
                 /\ pair \notin db.favorite_meals => db' = db
       /\ (/\ resp'.op = "User.unmarkFavDrink"
           /\ \E m \in db.drinks : m.id = resp'.args.id
           /\ \E u \in db.users : u.username = resp'.args.username) =>
             LET pair == [username |-> resp'.args.username, drink_id |-> resp'.args.id]
             IN  /\ resp'.err = NoError
                 /\ pair \notin db'.favorite_drinks
                 /\ db'.favorite_drinks = db.favorite_drinks \ {pair}
                 /\ OnlyTableChanged(db, db', "favorite_drinks")
                 /\ pair \notin db.favorite_drinks => db' = db]_vars

\* u2 unfavorited meal 1, which u2 had not favorited, while u1's favorite
\* of meal 1 stayed
AbsentPairUnmarked ==
    /\ resp.op = "User.unmarkFavMeal"
    /\ resp.args = [username |-> "u2", id |-> 1]
    /\ nops = 1
    /\ resp.err = NoError
    /\ [username |-> "u1", meal_id |-> 1] \in db.favorite_meals


\* what one call of a favorite method alone makes of the seeded store
FavAlone(op, username, id) ==
    CASE op = "User.markFavMeal" -> UserMarkFavMeal(commonBeforeAll, username, id)
      [] op = "User.unmarkFavMeal" -> UserUnmarkFavMeal(commonBeforeAll, username, id)
      [] op = "User.markFavDrink" -> UserMarkFavDrink(commonBeforeAll, username, id)
      [] op = "User.unmarkFavDrink" -> UserUnmarkFavDrink(commonBeforeAll, username, id)

\* C15: two concurrent identical favorite calls of one user for an existing
\* meal/drink, interleaved in any order at their statements, both complete
\* without error and leave the store one such call alone leaves.
ConcurrentIdenticalFavConverges ==
    (/\ DOMAIN calls = Procs
     /\ \A p \in Procs : calls[p].pc = "done"
     /\ calls[1].op \in FavOps
     /\ calls[2].op = calls[1].op
     /\ calls[2].args = calls[1].args
     /\ FavAlone(calls[1].op, calls[1].args.username, calls[1].args.id).err = NoError) =>
        /\ \A p \in Procs : calls[p].err = NoError
        /\ db = FavAlone(calls[1].op, calls[1].args.username, calls[1].args.id).db

\* both callers favorited meal 2 for u1, not a favorite before, and finished
TwoCallersMarkedSameMeal ==
    /\ DOMAIN calls = Procs
    /\ \A p \in Procs :
           /\ calls[p].op = "User.markFavMeal"
           /\ calls[p].args = [username |-> "u1", id |-> 2]
           /\ calls[p].pc = "done"
           /\ calls[p].err = NoError
    /\ [username |-> "u1", meal_id |-> 2] \in db.favorite_meals

\* C16: in every state, under any interleaving of the favorite methods with
\* Meal.remove, Drink.remove and User.remove, every row of favorite_meals
\* and favorite_drinks references a user that exists and a meal/drink that
\* exists.
FavoritesReferenceExistingRows ==
    /\ \A f \in db.favorite_meals :
           /\ \E u \in db.users : u.username = f.username
           /\ \E m \in db.meals : m.id = f.meal_id
    /\ \A f \in db.favorite_drinks :
           /\ \E u \in db.users : u.username = f.username
           /\ \E m \in db.drinks : m.id = f.drink_id

\* a meal was removed between the checks and the INSERT of a markFavMeal,
\* and a favorited meal was removed
FavoriteRacedWithRemove ==
    /\ DOMAIN calls = Procs
    /\ \E p, q \in Procs :
           /\ calls[p].op = "User.markFavMeal"
           /\ calls[p].err.kind = "Internal"
           /\ calls[q].op = "Meal.remove"
           /\ calls[q].args.id = 1
           /\ calls[q].err = NoError


\* C17: User.authenticate fails with Unauthorized both for an existing user
\* with a wrong password and for a user that does not exist, with any
\* password; the two errors are the same error (kind, message, status) and
\* nothing else in the outcome differs; authenticate never fails with
\* NotFound.
AuthenticateFailuresAreIdentical ==
    [][resp'.op = "User.authenticate" =>
          /\ resp'.err.kind # "NotFound"
          /\ (~\E u \in db.users : u.username = resp'.args.username) =>
                 resp'.err = UnauthorizedError("Invalid username/password")
          /\ resp'.err # NoError =>
                 \A u1, u2 \in AuthUsernames, p1, p2 \in Passwords :
                     LET a1 == UserAuthenticate(db, u1, p1)
                         a2 == UserAuthenticate(db, u2, p2)
                     IN  (a1.err # NoError /\ a2.err # NoError) =>
                             /\ a1.err = resp'.err
                             /\ a2.err = resp'.err
                             /\ a1.body = a2.body
                             /\ a1.nq = a2.nq
                             /\ a1.db = a2.db]_vars

\* authenticate failed for a user that does not exist while a wrong
\* password for u1 fails too
MissingUserAuthenticated ==
    /\ resp.op = "User.authenticate"
    /\ resp.args.username = "nope"
    /\ resp.err.kind = "Unauthorized"
    /\ \E u \in db.users : u.username = "u1"
    /\ UserAuthenticate(db, "u1", "password2").err = resp.err

UserReturningOps ==
    {"User.authenticate", "User.register", "User.findAll", "User.get", "User.update"}

\* C18: no object returned by User.authenticate, User.register,
\* User.findAll, User.get or User.update has a password field.
NoPasswordInReturnedObjects ==
    resp.op \in UserReturningOps =>
        \A i \in 1..Len(resp.body) : "password" \notin DOMAIN resp.body[i]

\* u1 authenticated with the right password and got the user record
AuthenticatedUserReturned ==
    /\ resp.op = "User.authenticate"
    /\ resp.err = NoError
    /\ resp.body[1].username = "u1"
    /\ resp.body[1].email = "u1@email.com"

\* C19: in every state reached by User.register and User.update calls the
\* password stored for every user is an output of the hash function, never
\* the plaintext the caller supplied.
StoredPasswordsAreHashes ==
    \A u \in db.users : \E p \in Passwords : u.password = Hash(p)

\* C20: User.authenticate(u, q) succeeds exactly when user u exists and q
\* is the password most recently set for u: after register it is the
\* registered password, after an update that carried a password it is that
\* password, and no other call changes which password authenticates.
AuthenticateAcceptsLatestPassword ==
    [][/\ (resp'.op = "User.register" /\ resp'.err = NoError) =>
             \A q \in Passwords :
                 (UserAuthenticate(db', resp'.args.data.username, q).err = NoError)
                     <=> (q = resp'.args.data.password)
       /\ (/\ resp'.op = "User.update" /\ resp'.err = NoError
           /\ HasKey(resp'.args.data, "password")) =>
             \A q \in Passwords :
                 (UserAuthenticate(db', resp'.args.username, q).err = NoError)
                     <=> (\E i \in 1..Len(resp'.args.data) :
                              resp'.args.data[i] = <<"password", q>>)
       /\ \A u \in AuthUsernames, q \in Passwords :
             \/ /\ resp'.op = "User.register" /\ resp'.args.data.username = u
             \/ /\ resp'.op = "User.update" /\ resp'.args.username = u
                /\ HasKey(resp'.args.data, "password")
             \/ /\ resp'.op = "User.remove" /\ resp'.args.username = u
             \/ (UserAuthenticate(db', u, q).err = NoError)
                    <=> (UserAuthenticate(db, u, q).err = NoError)
       /\ \A u \in AuthUsernames, q \in Passwords :
             (~\E r \in db'.users : r.username = u) =>
                 UserAuthenticate(db', u, q).err # NoError
       /\ (resp'.op = "User.authenticate") =>
             resp'.err = UserAuthenticate(db, resp'.args.username,
                                          resp'.args.password).err]_vars


\* the members of list xs
Elems(xs) == {xs[i] : i \in 1..Len(xs)}

UpdateTable(op, args) ==
    CASE op = "Meal.update" -> "meals"
      [] op = "Drink.update" -> "drinks"
      [] op = "User.update" -> "users"
      [] op = "User.updatePersonalRecipe" -> TableOf(args.type)

\* row r is the row an update call identifies
IsUpdateTarget(op, args, r) ==
    IF op = "User.update" THEN r.username = args.username ELSE r.id = args.id

\* the column a key of the mapping names
NamedColumn(op, key) ==
    IF op = "User.update" /\ key = "firstName" THEN "first_name"
    ELSE IF op = "User.update" /\ key = "lastName" THEN "last_name"
    ELSE key

\* C22: a successful update on a Meal, Drink, User or personal recipe
\* changes only the columns named by the keys of the mapping, on the one row
\* the identifier names; every other column of that row, every other row
\* and every other table keep their values.
UpdateChangesOnlyNamedColumns ==
    [][(resp'.op \in UpdateOps /\ resp'.err = NoError) =>
          LET op == resp'.op
              args == resp'.args
              t == UpdateTable(op, args)
              named == {NamedColumn(op, args.data[i][1]) : i \in 1..Len(args.data)}
              before == {r \in db[t] : IsUpdateTarget(op, args, r)}
              after == {r \in db'[t] : IsUpdateTarget(op, args, r)}
          IN  /\ OnlyTableChanged(db, db', t)
              /\ db'[t] \ after = db[t] \ before
              /\ Cardinality(before) = 1
              /\ Cardinality(after) = 1
              /\ \A r \in before, r2 \in after :
                     /\ DOMAIN r2 = DOMAIN r
                     /\ \A c \in DOMAIN r \ named : r2[c] = r[c]]_vars

\* u1's last name and email were updated and the first name stayed
TwoColumnsOfUserUpdated ==
    /\ resp.op = "User.update"
    /\ resp.args.username = "u1"
    /\ Len(resp.args.data) = 2
    /\ resp.err = NoError
    /\ resp.body[1].lastName = "NewL"
    /\ resp.body[1].firstName = "U1F"
    /\ \E u \in db.users : u.username = "u2" /\ u.last_name = "U2L"


\* text filter occurs in text value, letter case aside
ContainsIgnoringCase(value, filter) ==
    LET v == Lower(Spell[value])
        f == Lower(Spell[filter])
    IN  \E k \in 0..Len(v) : k + Len(f) <= Len(v) /\ SubSeq(v, k + 1, k + Len(f)) = f

\* list rows is in ascending order of name
AscendingByName(rows) ==
    \A i, j \in 1..Len(rows) : i < j => ~TextLess(rows[j].name, rows[i].name)

\* C23: Meal.findAll and Drink.findAll return exactly the rows that match
\* every supplied filter (name, category, area or type) as a
\* case-insensitive substring, each row once, ordered by name ascending;
\* with no filter they return every row ordered by name ascending.
FindAllReturnsSubstringMatches ==
    [][/\ resp'.op = "Meal.findAll" =>
             LET f == resp'.args.searchFilters
                 expected == {r \in db.meals :
                                 \A k \in DOMAIN f : ContainsIgnoringCase(r[k], f[k])}
             IN  /\ resp'.err = NoError
                 /\ Elems(resp'.body) = expected
                 /\ Len(resp'.body) = Cardinality(expected)
                 /\ AscendingByName(resp'.body)
       /\ resp'.op = "Drink.findAll" =>
             LET f == resp'.args.searchFilters
                 expected == {r \in db.drinks :
                                 \A k \in DOMAIN f : ContainsIgnoringCase(r[k], f[k])}
             IN  /\ resp'.err = NoError
                 /\ Elems(resp'.body) = expected
                 /\ Len(resp'.body) = Cardinality(expected)
                 /\ AscendingByName(resp'.body)]_vars


\* the HTTP status of an error kind
StatusOfKind(kind) ==
    CASE kind = "BadRequest" -> 400
      [] kind = "Unauthorized" -> 401
      [] kind = "NotFound" -> 404
      [] OTHER -> 500

\* C24: every error that reaches the error handler produces a response
\* whose body is {error: {message, status}} and whose HTTP status is that of
\* the error's kind: 400 for BadRequest, 401 for Unauthorized, 404 for
\* NotFound (an unmatched route included), 500 for an error with no status.
ErrorsAnsweredWithKindStatus ==
    (resp.op # "commonBeforeAll" /\ resp.err # NoError) =>
        /\ resp.status = StatusOfKind(resp.err.kind)
        /\ resp.body = <<[error |-> [message |-> resp.err.message,
                                     status |-> StatusOfKind(resp.err.kind)]]>>

\* a database error, which carries no status, was answered with 500
DatabaseErrorAnswered500 ==
    /\ resp.op = "POST /users/:username/:type/personal"
    /\ resp.err.kind = "Internal"
    /\ resp.status = 500

\* rows of table t named name
RowsNamed(d, t, name) == {r \in d[t] : r.name = name}

\* C25: the duplicate-name check of Meal.create and Drink.create is a step
\* of its own and nothing protects the insert after it: a create call that
\* passed the check inserts its row without any error whatever the store
\* holds by then, a row of the same name inserted by the other caller
\* included, so two interleaved creates of one name both insert and
\* neither fails with Duplicate.
CreateInsertIgnoresRacingDuplicate ==
    [][\A p \in Procs :
          (/\ calls[p].op \in CreateOps
           /\ calls[p].pc = "insert"
           /\ calls'[p].pc = "done")
          => LET t == CreateTable(calls[p].op).t
                 name == calls[p].args.data.name
             IN  /\ calls'[p].err = NoError
                 /\ Cardinality(RowsNamed(db', t, name))
                        = Cardinality(RowsNamed(db, t, name)) + 1]_vars

\* C25 witness: both callers created the same new name, neither failed, and the
\* table holds two rows of that name
BothCreatesInsertedSameName ==
    /\ \A p \in Procs : /\ calls[p].op = "Meal.create"
                        /\ calls[p].pc = "done"
                        /\ calls[p].err = NoError
                        /\ calls[p].args.data.name = "New"
    /\ Cardinality(RowsNamed(db, "meals", "New")) = 2

\* the value an update stores for a key: User.update stores the hash of a
\* non-empty password and every other value as given
StoredValue(op, key, value) ==
    IF op = "User.update" /\ key = "password" /\ value # ""
    THEN Hash(value) ELSE value

\* C26: the builder writes each key to the column the rename mapping gives
\* it and to the column of the key's own name when the mapping has no entry
\* for it: after a successful update every value of the mapping is in that
\* column of the identified row; User.update writes firstName to first_name
\* and lastName to last_name, email and password to the columns of their own
\* names, and the updates of Meal, Drink and personal recipes, which pass no
\* mapping, write every key to the column of its own name.
KeysWrittenToRenamedColumns ==
    [][(resp'.op \in UpdateOps /\ resp'.err = NoError) =>
          LET op == resp'.op
              args == resp'.args
              renamed(key) == CASE op = "User.update" /\ key = "firstName" -> "first_name"
                                [] op = "User.update" /\ key = "lastName" -> "last_name"
                                [] OTHER -> key
          IN  \A r \in db'[UpdateTable(op, args)] :
                  IsUpdateTarget(op, args, r) =>
                      \A i \in 1..Len(args.data) :
                          /\ renamed(args.data[i][1]) \in DOMAIN r
                          /\ r[renamed(args.data[i][1])]
                                 = StoredValue(op, args.data[i][1], args.data[i][2])]_vars

\* C26 witness: User.update wrote the key firstName to u1's column first_name
FirstNameWrittenToFirstNameColumn ==
    /\ resp.op = "User.update"
    /\ resp.err = NoError
    /\ resp.args.username = "u1"
    /\ HasKey(resp.args.data, "firstName")
    /\ \E u \in db.users : u.username = "u1" /\ u.first_name = "NewF"

\* C27: in Meal.update, Drink.update, User.update and updatePersonalRecipe
\* the row identifier is the parameter after the N values of the builder and
\* the WHERE clause names placeholder N+1: the statement finds the row by
\* the identifier alone (NotFound and an unchanged store when no row has
\* it, whatever the values are), every SET column receives its own value,
\* never the identifier, and no row other than the identified one is
\* touched.
IdentifierBoundAfterValues ==
    [][(resp'.op \in UpdateOps /\ Len(resp'.args.data) > 0) =>
          LET op == resp'.op
              args == resp'.args
              t == UpdateTable(op, args)
              before == {r \in db[t] : IsUpdateTarget(op, args, r)}
              after == {r \in db'[t] : IsUpdateTarget(op, args, r)}
          IN  IF before = {}
              THEN resp'.err.kind = "NotFound" /\ db' = db
              ELSE /\ resp'.err = NoError
                   /\ Cardinality(after) = 1
                   /\ db'[t] \ after = db[t] \ before
                   /\ \A r \in after :
                          \A i \in 1..Len(args.data) :
                              r[NamedColumn(op, args.data[i][1])]
                                  = StoredValue(op, args.data[i][1],
                                                args.data[i][2])]_vars

\* C27 witness: Drink.update with two values found drink 1 by the third
\* parameter and wrote the two values to their columns
DrinkFoundByParameterAfterTwoValues ==
    /\ resp.op = "Drink.update"
    /\ resp.err = NoError
    /\ resp.args.id = 1
    /\ Len(resp.args.data) = 2
    /\ \E r \in db.drinks : r.id = 1 /\ r.category = "New Cat" /\ r.type = "New Type"
    /\ \A r \in db.drinks : r.id # 1 => r.category # "New Cat"

\* the users rows of a username
UsersNamed(d, username) == {u \in d.users : u.username = username}

\* the INSERT of a register call either creates the one row of its username
\* or fails and leaves the store as it was
RegisterInsertCreatesOrFails ==
    \A p \in Procs :
        (/\ calls[p].op = "User.register"
         /\ calls[p].pc = "insert"
         /\ calls'[p].pc = "done")
        => LET username == calls[p].args.data.username
           IN  \/ /\ calls'[p].err = NoError
                  /\ UsersNamed(db, username) = {}
                  /\ Cardinality(UsersNamed(db', username)) = 1
               \/ /\ calls'[p].err # NoError
                  /\ UsersNamed(db, username) # {}
                  /\ db' = db

\* C28: in every reachable state the users table holds at most one row per
\* username, under every interleaving of the statements of two
\* User.register calls: of two calls for one username that both passed the
\* duplicate check, at most one creates the row and the other fails at its
\* INSERT without changing the store.
AtMostOneUserPerUsername ==
    /\ [](\A u1, u2 \in db.users : u1.username = u2.username => u1 = u2)
    /\ [][RegisterInsertCreatesOrFails]_vars

\* C28 witness: both callers registered "new" and passed the duplicate check;
\* one created the row, the other failed at its INSERT, and one row exists
RacingRegisterFailedAtInsert ==
    /\ \A p \in Procs : /\ calls[p].op = "User.register"
                        /\ calls[p].args.data.username = "new"
                        /\ calls[p].pc = "done"
    /\ calls[1].args.data.password # calls[2].args.data.password
    /\ \E p, q \in Procs : /\ calls[p].err = NoError
                           /\ calls[q].err.kind = "Internal"
    /\ Cardinality(UsersNamed(db, "new")) = 1

\* C29: when two callers run the same remove (Meal.remove, Drink.remove or
\* User.remove) for the same row of the seeded store, in every interleaving
\* the row is gone as soon as one of them has returned, the first to return
\* succeeded, and once both have returned exactly one succeeded and the
\* other failed with NotFound.
ConcurrentRemovesDeleteOnce ==
    \A p, q \in Procs :
        (/\ p # q
         /\ calls[p].op \in RemoveOps
         /\ calls[q].op = calls[p].op
         /\ calls[q].args = calls[p].args
         /\ RemoveTargetExists(commonBeforeAll, calls[p].op, calls[p].args)
         /\ calls[p].pc = "done")
        => /\ ~RemoveTargetExists(db, calls[p].op, calls[p].args)
           /\ calls[q].pc # "done" => calls[p].err = NoError
           /\ calls[q].pc = "done" =>
                  \/ calls[p].err = NoError /\ calls[q].err.kind = "NotFound"
                  \/ calls[q].err = NoError /\ calls[p].err.kind = "NotFound"

\* C29 witness: both callers removed drink 1; the first succeeded, the second
\* got NotFound
SecondRemoveOfDrinkNotFound ==
    /\ \A p \in Procs : /\ calls[p].op = "Drink.remove"
                        /\ calls[p].args.id = 1
                        /\ calls[p].pc = "done"
    /\ calls[1].err = NoError
    /\ calls[2].err.kind = "NotFound"
    /\ ~\E r \in db.drinks : r.id = 1

\* the drink columns a personal-recipe statement returns of row r
DrinkView(r) == Project(r, DrinkCols \cup {"id"})

\* C30: the personal-recipe dispatch has two branches decided by equality
\* with "meals": for every :type other than "meals", an unknown one
\* included, the request of the path's own user is validated against the
\* drink schema and getPersonalRecipes, createPersonalRecipe,
\* getPersonalRecipe and updatePersonalRecipe read and write
\* personal_drinks; personal_meals is never touched and no request is
\* rejected for its type.
UnknownTypeActsAsDrinks ==
    [][(/\ resp'.op \in {"GET /users/:username/:type/personal",
                         "POST /users/:username/:type/personal",
                         "GET /users/:username/:type/personal/:id",
                         "PATCH /users/:username/:type/personal/:id"}
        /\ resp'.args.type # "meals"
        /\ resp'.args.identity # Anonymous
        /\ resp'.args.identity = resp'.args.username) =>
          LET op == resp'.op
              a == resp'.args
              own == {r \in db.personal_drinks : r.username = a.username}
          IN  /\ db'.personal_meals = db.personal_meals
              /\ op = "GET /users/:username/:type/personal" =>
                     /\ resp'.err = NoError
                     /\ Elems(resp'.body) = {DrinkView(r) : r \in own}
              /\ op = "POST /users/:username/:type/personal" =>
                     IF "drinkNew" \notin a.body.schemas
                     THEN resp'.err.kind = "BadRequest" /\ db' = db
                     ELSE \/ resp'.err.kind = "Internal" /\ db' = db
                          \/ /\ resp'.err = NoError
                             /\ \E r \in db'.personal_drinks \ db.personal_drinks :
                                    /\ r.username = a.username
                                    /\ DrinkView(r) = resp'.body[1]
                                    /\ db'.personal_drinks
                                           = db.personal_drinks \cup {r}
              /\ op = "GET /users/:username/:type/personal/:id" =>
                     IF \E r \in own : r.id = a.id
                     THEN /\ resp'.err = NoError
                          /\ resp'.body[1] \in {DrinkView(r) : r \in own}
                          /\ resp'.body[1].id = a.id
                     ELSE resp'.err.kind = "NotFound"
              /\ op = "PATCH /users/:username/:type/personal/:id" =>
                     IF "drinkUpdate" \notin a.body.schemas \/ Len(a.body.data) = 0
                     THEN resp'.err.kind = "BadRequest" /\ db' = db
                     ELSE IF \E r \in db.personal_drinks : r.id = a.id
                     THEN /\ resp'.err = NoError
                          /\ resp'.body[1] \in {DrinkView(r) : r \in db'.personal_drinks}
                          /\ resp'.body[1].id = a.id
                     ELSE resp'.err.kind = "NotFound" /\ db' = db]_vars

\* C30 witness: a POST with a type that is neither meals nor drinks created a
\* personal drink
UnknownTypeCreatedPersonalDrink ==
    /\ resp.op = "POST /users/:username/:type/personal"
    /\ resp.args.type = "other"
    /\ resp.status = 201
    /\ \E r \in db.personal_drinks :
           /\ r.username = resp.args.username
           /\ r.name = "New"
           /\ r.id = resp.body[1].id

====
